---------------------------- MODULE Spec2Model ----------------------------
(***************************************************************************)
(* A model of the store-navigator backend:                                 *)
(*   - the localization coordinator (rtabmap_service.py, RTABMapService),  *)
(*     as asyncio coroutines that interleave only at their await points;   *)
(*   - the search engine (search_product.py);                              *)
(*   - the navigation guidance (navigation_guidance.py).                   *)
(* Texts are TLA+ strings; a character of a text is a substring of length  *)
(* one.                                                                    *)
(***************************************************************************)
EXTENDS Integers, Sequences, FiniteSets, TLC

(***************************************************************************)
(* Bounds of the model.                                                    *)
(***************************************************************************)
\* Number of calls (process_image or initialize) made on the one service.
MaxCalls == 4
\* Number of calls in the runs checked for liveness.
MaxFairCalls == 3
\* Number of rows of the ObjMeta table of a store.
MaxFrames == 2
\* Number of times normalize_search_term is applied in a row.
MaxApplications == 2

\* Number of pieces of engine output handed to the parser in one text.
MaxReports == 3
\* Number of store operations run one after the other.
MaxOperations == 2
VARIABLES
    store,        \* the rows of the ObjMeta table, in rowid order
    query,        \* the text the user searches for
    legacy,       \* what search_products returned with use_sql_prefilter=False
    prefiltered,  \* what search_products returned with use_sql_prefilter=True
    fuzzy,        \* the last fuzzy_search_objects call: frame and matches
    norm_term,    \* a string handed to normalize_search_term
    normal_forms, \* its successive normal forms: each the normal form of the last
    nav_request,  \* user position, user yaw and target handed to the guidance
    nav_guidance, \* the dictionary generate_clock_face_direction returned
    nav_merged,   \* the navigation_guidance add_navigation_guidance merged
    wf_request,   \* one execute_workflow call: its arguments and its environment
    wf_result,    \* the dictionary execute_workflow returned
    wf_found,     \* the formatted search results of that call
    wf_localizer, \* what the localization answered to that call
    wf_stages,    \* the stages that call ran, in order
    engine_output,\* the text rtabmap-console wrote for one image
    parsed,       \* what parse_localization_output made of it
    parse_ran,    \* whether the parser has run on it
    connections,  \* the sqlite3 connections that are open, by number
    db_last,      \* the store operation completed last and how it ended
    db_ops        \* the number of store operations completed

searchVars == <<store, query, legacy, prefiltered, fuzzy>>
normVars == <<norm_term, normal_forms>>
navVars == <<nav_request, nav_guidance, nav_merged>>
flowVars == <<wf_request, wf_result, wf_found, wf_localizer, wf_stages>>
parseVars == <<engine_output, parsed, parse_ran>>
dbVars == <<connections, db_last, db_ops>>

(***************************************************************************)
(* Part 1.  The localization coordinator.                                  *)
(***************************************************************************)
VARIABLES
    is_initialized,  \* RTABMapService.is_initialized
    db_path,         \* RTABMapService.db_path, NoPath for None
    image_counter,   \* RTABMapService.image_counter
    locked,          \* asyncio.Lock._locked of RTABMapService.lock
    waiters,         \* asyncio.Lock._waiters: the calls suspended in acquire()
    woken,           \* the waiters whose future has its result set
    arrived,         \* number of calls made so far; a call's id is its arrival rank
    call,            \* per call: kind, position, argument, workspace, result
    workspaces,      \* the temp_proc_* directories that exist under DATA_DIR
    engines,         \* the rtabmap-console subprocesses that are running
    exited,          \* per call: what its subprocess left on exit, or NoExit
    grants           \* history: the calls in the order they took the lock

coordVars == <<is_initialized, db_path, image_counter, locked, waiters, woken,
               arrived, call, workspaces, engines, exited, grants>>

Calls == 1..MaxCalls
NoPath == "None"
\* Database files that exist on disk, and the paths callers may pass.
ExistingDbs == {"store.db"}
DbArgs == {"store.db", "absent.db"}
NoExit == [rc |-> -1, output |-> "none"]
\* What the engine's stdout+stderr parses to: a candidate at or above the
\* threshold, candidates all below it / none, or text the parser raises on.
Outputs == {"accepted", "rejected", "unparsable"}
NoCall == [kind |-> "none", pc |-> "none", arg |-> NoPath, ws |-> 0,
           result |-> "none", waited |-> FALSE]

\* asyncio.Lock.acquire's fast path: the lock is free and nobody waits for it.
LockFreeNoCheck(l, w) == w = <<>>
LockFree(l, w) == ~l /\ w = <<>>

\* asyncio.Lock._wake_up_first: set the result of the first waiter's future.
WakeUpLast(w, wk) == IF w = <<>> THEN wk ELSE wk \cup {w[Len(w)]}
WakeUpFirst(w, wk) == IF w = <<>> THEN wk ELSE wk \cup {Head(w)}

\* asyncio.Lock.release: unlock; the `async with` block always runs it.
ReleaseKeepsLocked(l) == l
Release(l) == FALSE

\* The finally block of process_image: remove the request's directory.
RmtreeNever(dirs, d) == dirs
Rmtree(dirs, d) == dirs \ {d}

\* What the timeout handling does to the subprocess: process_image only
\* catches the TimeoutError; nothing terminates the engine.
OnTimeout(procs, c) == procs

RemoveFrom(w, c) == SelectSeq(w, LAMBDA x: x # c)

CoordInit ==
    /\ is_initialized = FALSE
    /\ db_path = NoPath
    /\ image_counter = 0
    /\ locked = FALSE
    /\ waiters = <<>>
    /\ woken = {}
    /\ arrived = 0
    /\ call = [c \in Calls |-> NoCall]
    /\ workspaces = {}
    /\ engines = {}
    /\ exited = [c \in Calls |-> NoExit]
    /\ grants = <<>>


\* The calls that hold the lock across an await: inside `async with self.lock`.
Holding == {c \in Calls : call[c].pc \in {"spawn", "communicate"}}
RunningIds == {e.id : e \in engines}

\* The end of the `async with` block of a call c (its record `rec`) that
\* returns `res`: the finally block removes the workspace `d`, then the lock
\* is released and the first waiter woken.  `dirs`, `w`, `wk` are the
\* directories, the waiters and the woken futures at that point.
Leave(c, rec, res, dirs, d, w, wk) ==
    /\ call' = [call EXCEPT ![c] = [rec EXCEPT !.pc = "returned", !.result = res]]
    /\ workspaces' = Rmtree(dirs, d)
    /\ locked' = Release(TRUE)
    /\ waiters' = w
    /\ woken' = WakeUpFirst(w, wk)

\* process_image from the acquisition of the lock to its first await (the
\* subprocess launch), or to its return when the preparation raises.
EnterProcessImage(c, rec, w, wk) ==
    LET n == image_counter + 1 IN
    /\ image_counter' = n
    /\ grants' = Append(grants, c)
    /\ UNCHANGED <<is_initialized, db_path>>
    /\ \E prep \in {"ok", "mkdir_raises", "copy_raises", "exec_raises"} :
         IF prep = "ok"
         THEN /\ locked' = TRUE
              /\ waiters' = w
              /\ woken' = wk
              /\ workspaces' = workspaces \cup {n}
              /\ engines' = engines \cup {[id |-> c, input |-> db_path]}
              /\ call' = [call EXCEPT ![c] = [rec EXCEPT !.pc = "spawn", !.ws = n]]
         ELSE /\ Leave(c, [rec EXCEPT !.ws = n], "Exception",
                       IF prep = "mkdir_raises" THEN workspaces
                                                ELSE workspaces \cup {n},
                       n, w, wk)
              /\ UNCHANGED engines

\* shutdown: reset the service state (it takes no lock).
ShutdownState == [is_initialized |-> FALSE, db_path |-> NoPath]

\* initialize from the acquisition of the lock to its return; shutdown() has
\* no await in it, so the whole body is one step.
EnterInitialize(c, rec, w, wk) ==
    LET db == rec.arg IN
    /\ grants' = Append(grants, c)
    /\ UNCHANGED <<image_counter, engines>>
    /\ IF is_initialized /\ db_path = db
       THEN /\ UNCHANGED <<is_initialized, db_path>>
            /\ Leave(c, rec, "True", workspaces, 0, w, wk)
       ELSE IF db \notin ExistingDbs
       THEN /\ is_initialized' = ShutdownState.is_initialized
            /\ db_path' = ShutdownState.db_path
            /\ Leave(c, rec, "False", workspaces, 0, w, wk)
       ELSE /\ is_initialized' = TRUE
            /\ db_path' = db
            /\ Leave(c, rec, "True", workspaces, 0, w, wk)

Enter(c, rec, w, wk) ==
    IF rec.kind = "process_image" THEN EnterProcessImage(c, rec, w, wk)
                                  ELSE EnterInitialize(c, rec, w, wk)

\* lock.acquire() of a new call: take the lock on the fast path, or join the
\* waiters.
Acquire(c, rec) ==
    IF LockFree(locked, waiters)
    THEN Enter(c, rec, waiters, woken)
    ELSE /\ waiters' = Append(waiters, c)
         /\ call' = [call EXCEPT ![c] = [rec EXCEPT !.pc = "waiting",
                                                    !.waited = TRUE]]
         /\ UNCHANGED <<is_initialized, db_path, image_counter, locked, woken,
                        workspaces, engines, grants>>

\* A caller calls process_image: the initialized check, then lock.acquire().
CallProcessImage ==
    LET c == arrived + 1
        rec == [NoCall EXCEPT !.kind = "process_image"] IN
    /\ UNCHANGED <<searchVars, normVars, navVars,
                 flowVars, parseVars, dbVars>>
    /\ arrived < MaxCalls
    /\ arrived' = c
    /\ UNCHANGED exited
    /\ IF ~is_initialized \/ db_path = NoPath
       THEN /\ call' = [call EXCEPT ![c] = [rec EXCEPT !.pc = "raised",
                                                       !.result = "RuntimeError"]]
            /\ UNCHANGED <<is_initialized, db_path, image_counter, locked, waiters,
                           woken, workspaces, engines, grants>>
       ELSE Acquire(c, rec)

\* A caller calls initialize(db).
CallInitialize ==
    LET c == arrived + 1 IN
    /\ UNCHANGED <<searchVars, normVars, navVars,
                 flowVars, parseVars, dbVars>>
    /\ arrived < MaxCalls
    /\ arrived' = c
    /\ UNCHANGED exited
    /\ \E db \in DbArgs :
         Acquire(c, [NoCall EXCEPT !.kind = "initialize", !.arg = db])

\* A waiter whose future has its result resumes in acquire(): it leaves the
\* waiters and takes the lock.
Resume(c) ==
    /\ UNCHANGED <<searchVars, normVars, navVars,
                 flowVars, parseVars, dbVars>>
    /\ call[c].pc = "waiting"
    /\ c \in woken
    /\ UNCHANGED <<arrived, exited>>
    /\ Enter(c, call[c], RemoveFrom(waiters, c), woken \ {c})

\* create_subprocess_exec returns; process_image goes on to await
\* wait_for(communicate(), 60).
SpawnReturn(c) ==
    /\ UNCHANGED <<searchVars, normVars, navVars,
                 flowVars, parseVars, dbVars>>
    /\ call[c].pc = "spawn"
    /\ call' = [call EXCEPT ![c].pc = "communicate"]
    /\ UNCHANGED <<is_initialized, db_path, image_counter, locked, waiters, woken,
                   arrived, workspaces, engines, exited, grants>>

\* The engine subprocess of call c exits, with a return code and an output.
\* Only a call still awaiting communicate() reads them.
EngineExit(c) ==
    /\ UNCHANGED <<searchVars, normVars, navVars,
                 flowVars, parseVars, dbVars>>
    /\ \E e \in engines :
         /\ e.id = c
         /\ engines' = engines \ {e}
    /\ IF call[c].pc \in {"spawn", "communicate"}
       THEN \E rc \in {0, 1}, out \in Outputs :
               exited' = [exited EXCEPT ![c] = [rc |-> rc, output |-> out]]
       ELSE UNCHANGED exited
    /\ UNCHANGED <<is_initialized, db_path, image_counter, locked, waiters, woken,
                   arrived, call, workspaces, grants>>

\* What process_image returns for the engine's output, lines 596-645: the
\* parsed candidate is looked up in the store (`found`: the store has a
\* global pose for it), which get_stored_node_pose cannot do without db_path.
Outcome(out, path, found) ==
    IF out = "unparsable" THEN "RuntimeError: Failed to get localization results"
    ELSE IF out = "rejected" THEN "RuntimeError: No valid localization match"
    ELSE IF path # NoPath /\ found THEN "localization_successful"
    ELSE "error: Failed to retrieve GLOBAL coordinates"

\* communicate() has returned within the timeout: parse, resolve the pose,
\* clean up, release.
CommunicateDone(c) ==
    /\ UNCHANGED <<searchVars, normVars, navVars,
                 flowVars, parseVars, dbVars>>
    /\ call[c].pc = "communicate"
    /\ exited[c] # NoExit
    /\ \E found \in BOOLEAN :
         Leave(c, call[c], Outcome(exited[c].output, db_path, found),
               workspaces, call[c].ws, waiters, woken)
    /\ exited' = [exited EXCEPT ![c] = NoExit]
    /\ UNCHANGED <<is_initialized, db_path, image_counter, arrived, engines, grants>>

\* The 60 s of wait_for elapse with the engine still running: TimeoutError,
\* caught at line 647; clean up, release.
Timeout(c) ==
    /\ UNCHANGED <<searchVars, normVars, navVars,
                 flowVars, parseVars, dbVars>>
    /\ call[c].pc = "communicate"
    /\ c \in RunningIds
    /\ engines' = OnTimeout(engines, c)
    /\ Leave(c, call[c], "TimeoutError", workspaces, call[c].ws, waiters, woken)
    /\ UNCHANGED <<is_initialized, db_path, image_counter, arrived, exited, grants>>

\* The application calls shutdown() directly (app.py, shutdown_event).
Shutdown ==
    /\ UNCHANGED <<searchVars, normVars, navVars,
                 flowVars, parseVars, dbVars>>
    /\ is_initialized' = ShutdownState.is_initialized
    /\ db_path' = ShutdownState.db_path
    /\ UNCHANGED <<image_counter, locked, waiters, woken, arrived, call,
                   workspaces, engines, exited, grants>>

CoordNext ==
    \/ CallProcessImage
    \/ CallInitialize
    \/ Shutdown
    \/ \E c \in Calls : Resume(c)
    \/ \E c \in Calls : SpawnReturn(c)
    \/ \E c \in Calls : EngineExit(c)
    \/ \E c \in Calls : CommunicateDone(c)
    \/ \E c \in Calls : Timeout(c)

(***************************************************************************)
(* Part 2.  Product search (search_product.py).                            *)
(*                                                                         *)
(* Text is a TLA+ string and a character is a string of length one.  The   *)
(* letters of the French tables that are outside ASCII are written with    *)
(* stand-in characters that occur nowhere else in the tables and are       *)
(* letters for \w:  @ for a-circumflex, # for e-acute, $ for e-grave and   *)
(* & for the oe ligature.                                                  *)
(***************************************************************************)
UpperCase == "ABCDEFGHIJKLMNOPQRSTUVWXYZ"
LowerCase == "abcdefghijklmnopqrstuvwxyz"
DigitChars == "0123456789"
AccentedLetters == "@#$&"

\* the one element of a singleton set: The({e(x) : x \in {v}}) is e with x
\* bound to the value v, computed once
The(S) == CHOOSE x \in S : TRUE

CharAt(s, i) == SubSeq(s, i, i)
From(s, i) == SubSeq(s, i, Len(s))
CharIn(c, s) == \E i \in 1..Len(s) : CharAt(s, i) = c
IsSpace(c) == c = " "
\* \w of the re module: letters, digits and the underscore
IsWordChar(c) ==
    CharIn(c, LowerCase) \/ CharIn(c, UpperCase) \/ CharIn(c, DigitChars)
        \/ CharIn(c, AccentedLetters) \/ c = "_"
LowerChar(c) ==
    IF CharIn(c, UpperCase)
    THEN CharAt(LowerCase, CHOOSE i \in 1..Len(UpperCase) : CharAt(UpperCase, i) = c)
    ELSE c

RECURSIVE lower(_)
\* str.lower()
lower(s) ==
    IF s = "" THEN "" ELSE LowerChar(CharAt(s, 1)) \o lower(From(s, 2))

RECURSIVE lstrip(_)
lstrip(s) ==
    IF s # "" /\ IsSpace(CharAt(s, 1)) THEN lstrip(From(s, 2)) ELSE s
RECURSIVE rstrip(_)
rstrip(s) ==
    IF s # "" /\ IsSpace(CharAt(s, Len(s)))
    THEN rstrip(SubSeq(s, 1, Len(s) - 1)) ELSE s
\* str.strip()
strip(s) == rstrip(lstrip(s))

RECURSIVE replace(_, _, _)
\* str.replace(old, new) for a one-character old
replace(s, old, new) ==
    IF s = "" THEN ""
    ELSE (IF CharAt(s, 1) = old THEN new ELSE CharAt(s, 1))
             \o replace(From(s, 2), old, new)

\* What separates tokens: whitespace for str.split(), anything that is not a
\* word character for the \w+ runs of re.findall.
IsSep(c, sep) == IF sep = "space" THEN IsSpace(c) ELSE ~IsWordChar(c)

RECURSIVE RunLen(_, _, _)
\* Length of the longest prefix of s made of separators (want = TRUE) or of
\* non-separators (want = FALSE).
RunLen(s, sep, want) ==
    IF s = "" \/ IsSep(CharAt(s, 1), sep) # want THEN 0
    ELSE 1 + RunLen(From(s, 2), sep, want)

RECURSIVE Tokens(_, _)
\* The maximal runs of non-separator characters of s, in order.
Tokens(s, sep) ==
    The({IF rest = "" THEN <<>>
         ELSE The({<<SubSeq(rest, 1, n)>> \o Tokens(From(rest, n + 1), sep) :
                      n \in {RunLen(rest, sep, FALSE)}}) :
            rest \in {From(s, RunLen(s, sep, TRUE) + 1)}})

\* str.split() with no argument
split(s) == Tokens(s, "space")
\* re.findall(r'\b\w+\b', s)
findall_words(s) == Tokens(s, "nonword")

\* sub in s, for strings
Contains(sub, s) ==
    \E i \in 1..(Len(s) - Len(sub) + 1) : SubSeq(s, i, i + Len(sub) - 1) = sub
startswith(s, prefix) == Len(prefix) <= Len(s) /\ SubSeq(s, 1, Len(prefix)) = prefix
InSeq(x, seq) == \E i \in 1..Len(seq) : seq[i] = x

(***************************************************************************)
(* The module's dictionaries, as sequences of <<key, value>> in the        *)
(* dictionaries' iteration order.                                          *)
(***************************************************************************)
PRODUCT_SYNONYMS ==
    <<
       <<"soda", <<"pop", "soft_drink", "cola", "carbonated_drink", "fizzy_drink">>>>,
       <<"pop", <<"soda", "soft_drink", "cola", "carbonated_drink">>>>,
       <<"juice", <<"fruit_juice", "beverage", "drink">>>>,
       <<"water", <<"bottled_water", "drinking_water", "mineral_water", "spring_water">>>>,
       <<"coffee", <<"java", "espresso", "brew", "caffeine">>>>,
       <<"tea", <<"chai", "herbal_tea", "green_tea", "black_tea">>>>,
       <<"pasta", <<"spaghetti", "noodles", "macaroni", "linguine", "penne">>>>,
       <<"noodles", <<"pasta", "ramen", "udon", "egg_noodles">>>>,
       <<"cereal", <<"breakfast_cereal", "granola", "oats", "muesli", "flakes">>>>,
       <<"oatmeal", <<"oats", "porridge", "hot_cereal">>>>,
       <<"rice", <<"grain", "basmati", "jasmine", "brown_rice", "white_rice">>>>,
       <<"bread", <<"loaf", "baguette", "rolls", "buns", "toast">>>>,
       <<"chips", <<"crisps", "potato_chips", "snacks", "crackers">>>>,
       <<"crisps", <<"chips", "potato_chips", "snacks">>>>,
       <<"crackers", <<"biscuits", "wafers", "snack_crackers">>>>,
       <<"cookies", <<"biscuits", "treats", "sweets", "dessert">>>>,
       <<"candy", <<"sweets", "confectionery", "chocolate", "treats">>>>,
       <<"vegetables", <<"veggies", "produce", "greens">>>>,
       <<"fruits", <<"produce", "fresh_fruit">>>>,
       <<"oranges", <<"orange", "citrus">>>>,
       <<"potatoes", <<"potato", "spuds", "taters">>>>,
       <<"milk", <<"dairy", "whole_milk", "skim_milk", "2%_milk", "low_fat_milk">>>>,
       <<"cheese", <<"dairy", "cheddar", "swiss", "mozzarella", "parmesan">>>>,
       <<"yogurt", <<"yoghurt", "dairy", "greek_yogurt">>>>,
       <<"butter", <<"margarine", "spread", "dairy">>>>,
       <<"chicken", <<"poultry", "fowl", "bird">>>>,
       <<"beef", <<"meat", "steak", "ground_beef", "hamburger">>>>,
       <<"pork", <<"ham", "bacon", "sausage", "meat">>>>,
       <<"fish", <<"seafood", "salmon", "tuna", "cod">>>>,
       <<"frozen", <<"freezer", "ice", "frozen_food">>>>,
       <<"canned", <<"tin", "jar", "preserved", "jarred">>>>,
       <<"soup", <<"broth", "stew", "bisque", "chowder">>>>,
       <<"shampoo", <<"hair_care", "cleanser">>>>,
       <<"soap", <<"body_wash", "cleanser", "bar_soap">>>>,
       <<"detergent", <<"laundry_soap", "washing_powder", "fabric_softener">>>>,
       <<"toilet_paper", <<"tissue", "bathroom_tissue", "tp">>>>,
       <<"paper_towels", <<"kitchen_towels", "napkins">>>>,
       <<"ketchup", <<"tomato_sauce", "condiment">>>>,
       <<"mustard", <<"condiment", "yellow_mustard">>>>,
       <<"mayonnaise", <<"mayo", "condiment", "spread">>>>,
       <<"salt", <<"seasoning", "table_salt", "sea_salt">>>>,
       <<"pepper", <<"black_pepper", "seasoning", "spice">>>>,
       <<"oil", <<"cooking_oil", "olive_oil", "vegetable_oil">>>>,
       <<"vinegar", <<"balsamic", "white_vinegar", "apple_cider_vinegar">>>>
    >>
FRENCH_TRANSLATIONS ==
    <<
       <<"milk", "lait">>, <<"cheese", "fromage">>, <<"butter", "beurre">>,
       <<"yogurt", "yaourt">>, <<"eggs", "&ufs">>, <<"cream", "cr$me">>,
       <<"chicken", "poulet">>, <<"beef", "b&uf">>, <<"pork", "porc">>,
       <<"fish", "poisson">>, <<"salmon", "saumon">>, <<"tuna", "thon">>,
       <<"apple", "pomme">>, <<"banana", "banane">>,
       <<"orange", "orange">>, <<"grapes", "raisins">>,
       <<"strawberry", "fraise">>, <<"blueberry", "myrtille">>,
       <<"pear", "poire">>, <<"carrot", "carotte">>,
       <<"potato", "pomme de terre">>, <<"tomato", "tomate">>,
       <<"onion", "oignon">>, <<"lettuce", "laitue">>,
       <<"spinach", "#pinard">>, <<"broccoli", "brocoli">>,
       <<"cucumber", "concombre">>, <<"pepper", "poivron">>,
       <<"garlic", "ail">>, <<"bread", "pain">>, <<"rice", "riz">>,
       <<"pasta", "p@tes">>, <<"cereal", "c#r#ales">>,
       <<"flour", "farine">>, <<"oats", "avoine">>, <<"bagel", "bagel">>,
       <<"croissant", "croissant">>, <<"muffin", "muffin">>,
       <<"cake", "g@teau">>, <<"cookie", "biscuit">>, <<"water", "eau">>,
       <<"juice", "jus">>, <<"coffee", "caf#">>, <<"tea", "th#">>,
       <<"soda", "soda">>, <<"beer", "bi$re">>, <<"wine", "vin">>,
       <<"sugar", "sucre">>, <<"salt", "sel">>, <<"oil", "huile">>,
       <<"vinegar", "vinaigre">>, <<"honey", "miel">>,
       <<"jam", "confiture">>, <<"ketchup", "ketchup">>,
       <<"mustard", "moutarde">>, <<"mayonnaise", "mayonnaise">>,
       <<"sauce", "sauce">>, <<"soup", "soupe">>, <<"chips", "chips">>,
       <<"crackers", "crackers">>, <<"nuts", "noix">>,
       <<"candy", "bonbons">>, <<"chocolate", "chocolat">>,
       <<"ice_cream", "cr$me glac#e">>, <<"popcorn", "pop-corn">>,
       <<"frozen", "surgel#">>, <<"canned", "en conserve">>,
       <<"pickles", "cornichons">>, <<"soap", "savon">>,
       <<"shampoo", "shampooing">>, <<"toothpaste", "dentifrice">>,
       <<"toilet_paper", "papier toilette">>, <<"detergent", "d#tergent">>,
       <<"tissue", "mouchoir">>, <<"organic", "biologique">>,
       <<"gluten_free", "sans gluten">>, <<"vegan", "v#g#talien">>,
       <<"kosher", "casher">>, <<"low_fat", "faible en gras">>,
       <<"sugar_free", "sans sucre">>
    >>
DIETARY_FILTERS ==
    <<
       <<"gluten_free", <<"gluten free", "gf", "celiac", "wheat free", "gluten-free", "sans gluten">>>>,
       <<"vegan", <<"vegan", "plant based", "dairy free", "plant-based", "v#g#talien", "v#gane">>>>,
       <<"vegetarian", <<"vegetarian", "veggie", "meat free", "v#g#tarien">>>>,
       <<"kosher", <<"kosher", "k", "pareve", "kashrut", "casher">>>>,
       <<"halal", <<"halal", "islamic", "permissible">>>>,
       <<"organic", <<"organic", "usda organic", "bio", "biologique", "natural", "naturel">>>>,
       <<"non_gmo", <<"non gmo", "gmo free", "non-gmo", "sans ogm", "natural">>>>,
       <<"sugar_free", <<"sugar free", "no sugar", "sugarless", "sans sucre", "diabetic">>>>,
       <<"low_sodium", <<"low sodium", "reduced sodium", "low salt", "faible sodium">>>>,
       <<"low_fat", <<"low fat", "reduced fat", "fat free", "faible en gras", "light">>>>,
       <<"lactose_free", <<"lactose free", "dairy free", "sans lactose", "plant milk">>>>,
       <<"keto", <<"keto", "ketogenic", "low carb", "high fat">>>>,
       <<"paleo", <<"paleo", "paleolithic", "caveman diet", "primal">>>>,
       <<"raw", <<"raw", "uncooked", "living food", "cru">>>>
    >>
plural_mappings ==
    <<
       <<"chips", "chip">>, <<"candies", "candy">>,
       <<"cereals", "cereal">>, <<"yogurts", "yogurt">>, <<"&ufs", "egg">>,
       <<"pommes", "apple">>, <<"bananes", "banana">>,
       <<"tomates", "tomato">>, <<"p@tes", "pasta">>,
       <<"c#r#ales", "cereal">>
    >>

\* key in d / d[key] / d.get(key) of a dictionary
HasKey(d, key) == \E i \in 1..Len(d) : d[i][1] = key
Lookup(d, key) == d[CHOOSE i \in 1..Len(d) : d[i][1] = key][2]

\* {v: k for k, v in FRENCH_TRANSLATIONS.items()}: for a value held by
\* several keys the last key in iteration order wins.
french_to_english_has(term) ==
    \E i \in 1..Len(FRENCH_TRANSLATIONS) : FRENCH_TRANSLATIONS[i][2] = term
french_to_english(term) ==
    LET last == CHOOSE i \in 1..Len(FRENCH_TRANSLATIONS) :
                    /\ FRENCH_TRANSLATIONS[i][2] = term
                    /\ \A j \in (i + 1)..Len(FRENCH_TRANSLATIONS) :
                           FRENCH_TRANSLATIONS[j][2] # term
    IN  FRENCH_TRANSLATIONS[last][1]

\* for key, members in d.items(): if term in members: term = key; break
FirstListing(d, term) ==
    LET hits == {i \in 1..Len(d) : InSeq(term, d[i][2])}
    IN  IF hits = {} THEN term
        ELSE d[CHOOSE i \in hits : \A j \in hits : i <= j][1]

\* if term in d: term = d[term]
Mapped(d, term) == IF HasKey(d, term) THEN Lookup(d, term) ELSE term
Translated(term) ==
    IF french_to_english_has(term) THEN french_to_english(term) ELSE term

\* the steps of normalize_search_term after the clean-up of the text, each
\* applied to the result of the one before
NormalizeClean(t2) ==
    The({Mapped(plural_mappings, t5) :
            t5 \in {The({FirstListing(DIETARY_FILTERS, t4) :
                            t4 \in {The({FirstListing(PRODUCT_SYNONYMS, t3) :
                                            t3 \in {Translated(t2)}})}})}})

normalize_search_term(term) ==
    The({NormalizeClean(t2) :
            t2 \in {replace(replace(strip(lower(term)), "'", ""), " ", "_")}})

RECURSIVE Dedup(_)
\* list(dict.fromkeys(terms)): first occurrences, in order
Dedup(seq) ==
    IF seq = <<>> THEN <<>>
    ELSE The({IF InSeq(seq[Len(seq)], init) THEN init
              ELSE Append(init, seq[Len(seq)]) :
                 init \in {Dedup(SubSeq(seq, 1, Len(seq) - 1))}})

expand_search_terms(search_term) ==
    LET syn == IF HasKey(PRODUCT_SYNONYMS, search_term)
               THEN Lookup(PRODUCT_SYNONYMS, search_term) ELSE <<>>
        fr  == IF HasKey(FRENCH_TRANSLATIONS, search_term)
                  /\ Lookup(FRENCH_TRANSLATIONS, search_term) # ""
               THEN <<Lookup(FRENCH_TRANSLATIONS, search_term)>> ELSE <<>>
        dt  == IF HasKey(DIETARY_FILTERS, search_term)
               THEN Lookup(DIETARY_FILTERS, search_term) ELSE <<>>
    IN  Dedup(<<search_term>> \o syn \o fr \o dt)

(***************************************************************************)
(* difflib.SequenceMatcher(None, a, b).ratio(), as the search code uses    *)
(* it: 2 * M / T, where T is the total length and M the number of matched  *)
(* characters found by taking the longest common block (the earliest in a, *)
(* then the earliest in b, among the longest) and recursing on the pieces  *)
(* to its left and to its right.  Both strings are far shorter than the    *)
(* 200 characters at which the junk heuristic starts.                      *)
(***************************************************************************)
RECURSIVE CommonLen(_, _, _, _)
\* length of the common block that starts at a[i] and b[j]
CommonLen(a, b, i, j) ==
    IF i > Len(a) \/ j > Len(b) \/ CharAt(a, i) # CharAt(b, j) THEN 0
    ELSE 1 + CommonLen(a, b, i + 1, j + 1)

\* of the blocks <<i, j, size>>, the longest; among those the one that
\* starts earliest in a, and among those the one that starts earliest in b
Longest(blocks) ==
    CHOOSE m \in blocks :
        \A q \in blocks :
            \/ q[3] < m[3]
            \/ q[3] = m[3] /\ q[1] > m[1]
            \/ q[3] = m[3] /\ q[1] = m[1] /\ q[2] >= m[2]

find_longest_match(a, b) ==
    IF a = "" \/ b = "" THEN <<1, 1, 0>>
    ELSE Longest({<<p[1], p[2], CommonLen(a, b, p[1], p[2])>> :
                     p \in (1..Len(a)) \X (1..Len(b))})

RECURSIVE Matches(_, _)
\* sum of the sizes of get_matching_blocks()
Matches(a, b) ==
    The({IF m[3] = 0 THEN 0
         ELSE m[3] + Matches(SubSeq(a, 1, m[1] - 1), SubSeq(b, 1, m[2] - 1))
                   + Matches(From(a, m[1] + m[3]), From(b, m[2] + m[3])) :
            m \in {find_longest_match(a, b)}})

\* SequenceMatcher(None, a, b).ratio() >= num / den; the ratio of two empty
\* strings is 1.0
RatioAtLeast(a, b, num, den) ==
    LET T == Len(a) + Len(b)
    IN  T = 0 \/ 2 * Matches(a, b) * den >= num * T

(***************************************************************************)
(* fuzzy_search_objects over the parsed objects of one frame.  An object   *)
(* is [class_name, notes]; a match is [score, description, obj] where obj  *)
(* is the object's position in the frame's list (kept to tell apart the    *)
(* objects behind the returned descriptions).                              *)
(***************************************************************************)
common_objects == <<"door", "wall", "floor", "light", "chair", "table">>

ModifiersNeverDecide(primary_matched, has_modifiers) == FALSE
\* "if primary_matched and modifiers": the modifier loop runs, and only its
\* verdict decides whether the object is kept
ModifiersDecide(primary_matched, has_modifiers) == primary_matched /\ has_modifiers

\* STEP 1: [matched, score] of the primary word against the class label
PrimaryScore(primary_object, class_name) ==
    IF primary_object = class_name THEN [matched |-> TRUE, score |-> 1000]
    ELSE IF Contains(primary_object, class_name)
    THEN IF InSeq(primary_object, findall_words(replace(class_name, "_", " ")))
         THEN [matched |-> TRUE, score |-> 800]
         ELSE [matched |-> FALSE, score |-> 0]
    ELSE IF RatioAtLeast(primary_object, class_name, 8, 10)
    THEN [matched |-> TRUE, score |-> 600]
    ELSE [matched |-> FALSE, score |-> 0]

\* STEP 2, one modifier: the points it earns, 0 when it is not found
ModifierScore(modifier, class_name, words_in_notes) ==
    IF InSeq(modifier, words_in_notes) THEN 200
    ELSE IF Contains(modifier, class_name) THEN 150
    ELSE IF \E i \in 1..Len(words_in_notes) :
                RatioAtLeast(modifier, words_in_notes[i], 8, 10)
    THEN 100
    ELSE 0

RECURSIVE SumScores(_, _, _)
SumScores(modifiers, class_name, words_in_notes) ==
    IF modifiers = <<>> THEN 0
    ELSE ModifierScore(Head(modifiers), class_name, words_in_notes)
             + SumScores(Tail(modifiers), class_name, words_in_notes)

\* STEP 3, first part: the word against the words of the class label
DirectScore(word, class_name, primary) ==
    IF InSeq(word, findall_words(replace(class_name, "_", " ")))
    THEN [matched |-> TRUE, score |-> primary.score + 500]
    ELSE IF RatioAtLeast(word, class_name, 9, 10)
    THEN [matched |-> TRUE, score |-> primary.score + 400]
    ELSE primary

\* STEP 3, second part: a common object named first in the notes
CommonObjectScore(word, notes, direct) ==
    IF /\ InSeq(word, common_objects)
       /\ InSeq(word, findall_words(notes))
       /\ startswith(notes, word)
    THEN [matched |-> TRUE, score |-> direct.score + 200]
    ELSE direct

\* STEP 3: the single-word fallback, added to what STEP 1 found
SingleWordScore(word, class_name, notes, primary) ==
    The({CommonObjectScore(word, notes, direct) :
            direct \in {DirectScore(word, class_name, primary)}})

\* STEP 2: every modifier must be found; the points of all of them and the
\* bonus are added, or the object is dropped
ModifiersScore(primary, modifiers, class_name, words_in_notes) ==
    IF \A i \in 1..Len(modifiers) :
           ModifierScore(modifiers[i], class_name, words_in_notes) > 0
    THEN [matched |-> TRUE,
          score |-> primary.score
                    + SumScores(modifiers, class_name, words_in_notes) + 300]
    ELSE [matched |-> FALSE, score |-> 0]

\* STEPS 2 and 3 for an object whose primary result is known
ScoreSteps(primary, search_words, modifiers, class_name, notes) ==
    IF ModifiersDecide(primary.matched, modifiers # <<>>)
    THEN The({ModifiersScore(primary, modifiers, class_name, words_in_notes) :
                 words_in_notes \in {findall_words(notes)}})
    ELSE IF Len(search_words) = 1
    THEN SingleWordScore(search_words[1], class_name, notes, primary)
    ELSE primary

primary_object(search_words) ==
    IF search_words = <<>> THEN "" ELSE search_words[Len(search_words)]
modifiers_of(search_words) ==
    IF Len(search_words) > 1 THEN SubSeq(search_words, 1, Len(search_words) - 1)
    ELSE <<>>

\* the body of the loop over objects: [matched, score] of one object
ScoreLowered(class_name, notes, search_words) ==
    The({ScoreSteps(primary, search_words, modifiers_of(search_words),
                    class_name, notes) :
            primary \in {PrimaryScore(primary_object(search_words), class_name)}})
ScoreObject(obj, search_words) ==
    The({ScoreLowered(class_name, lower(obj.notes), search_words) :
            class_name \in {lower(obj.class_name)}})

Description(obj) == obj.class_name \o ": " \o obj.notes

RECURSIVE SortLastFirst(_)
SortLastFirst(ms) ==
    IF ms = <<>> THEN <<>>
    ELSE The({<<ms[top]>> \o SortLastFirst(SubSeq(ms, 1, top - 1)
                                              \o SubSeq(ms, top + 1, Len(ms))) :
                 top \in {CHOOSE i \in 1..Len(ms) :
                              /\ \A j \in 1..Len(ms) : ms[j].score <= ms[i].score
                              /\ \A j \in (i + 1)..Len(ms) : ms[j].score < ms[i].score}})

RECURSIVE SortByScore(_)
\* list.sort(key=score, reverse=True): stable, highest score first
SortByScore(ms) ==
    IF ms = <<>> THEN <<>>
    ELSE The({<<ms[top]>> \o SortByScore(SubSeq(ms, 1, top - 1)
                                            \o SubSeq(ms, top + 1, Len(ms))) :
                 top \in {CHOOSE i \in 1..Len(ms) :
                              /\ \A j \in 1..Len(ms) : ms[j].score <= ms[i].score
                              /\ \A j \in 1..(i - 1) : ms[j].score < ms[i].score}})

RECURSIVE NormalizeAll(_)
NormalizeAll(words) ==
    IF words = <<>> THEN <<>>
    ELSE <<normalize_search_term(Head(words))>> \o NormalizeAll(Tail(words))

RECURSIVE CollectMatches(_, _, _)
CollectMatches(objects, search_words, n) ==
    IF n = 0 THEN <<>>
    ELSE The({IF s.matched
              THEN Append(CollectMatches(objects, search_words, n - 1),
                          [score |-> s.score,
                           description |-> Description(objects[n]),
                           obj |-> n])
              ELSE CollectMatches(objects, search_words, n - 1) :
                 s \in {ScoreObject(objects[n], search_words)}})

matches_with_priority(search_term, objects) ==
    The({SortByScore(CollectMatches(objects, search_words, Len(objects))) :
            search_words \in {NormalizeAll(split(search_term))}})

\* return [match[1] for match in matches_with_priority]
Descriptions(ms) == [i \in 1..Len(ms) |-> ms[i].description]
MatchedObjects(ms) == [i \in 1..Len(ms) |-> ms[i].obj]
\* the priority_score of each returned match, in the order returned
Scores(ms) == [i \in 1..Len(ms) |-> ms[i].score]
\* priority_score and primary_matched of every object after STEP 1
PrimarySteps(search_words, objects) ==
    [n \in 1..Len(objects) |->
        PrimaryScore(primary_object(search_words), lower(objects[n].class_name))]
\* the returned list of descriptions
fuzzy_search_objects(search_term, objects) ==
    The({Descriptions(ms) : ms \in {matches_with_priority(search_term, objects)}})

(***************************************************************************)
(* search_products over the ObjMeta table.  A row is                       *)
(* [frame_id, format, x, y, objects]: format "dict" is the metadata        *)
(* dictionary with its global_pose, "list" the older bare list of objects  *)
(* (no pose), "empty" an empty metadata_json column.                       *)
(***************************************************************************)
RECURSIVE Like(_, _, _, _)
\* text[j..] LIKE pattern[i..]: % is any run of characters, _ any one
\* character, and letters compare without regard to (ASCII) case
Like(pattern, text, i, j) ==
    IF i > Len(pattern) THEN j > Len(text)
    ELSE IF CharAt(pattern, i) = "%"
    THEN \E k \in j..(Len(text) + 1) : Like(pattern, text, i + 1, k)
    ELSE /\ j <= Len(text)
         /\ \/ CharAt(pattern, i) = "_"
            \/ LowerChar(CharAt(pattern, i)) = LowerChar(CharAt(text, j))
         /\ Like(pattern, text, i + 1, j + 1)

\* json.dumps of a coordinate
NumberText(n) == CharAt(DigitChars, n + 1) \o ".0"

RECURSIVE ObjectsText(_)
ObjectsText(objects) ==
    IF objects = <<>> THEN ""
    ELSE "{\"class_name\": \"" \o Head(objects).class_name
             \o "\", \"notes\": \"" \o Head(objects).notes \o "\"}"
             \o (IF Len(objects) > 1 THEN ", " ELSE "")
             \o ObjectsText(Tail(objects))

\* the text of the metadata_json column of a row
metadata_json(row) ==
    IF row.format = "empty" THEN ""
    ELSE IF row.format = "list" THEN "[" \o ObjectsText(row.objects) \o "]"
    ELSE "{\"global_pose\": {\"x\": " \o NumberText(row.x)
             \o ", \"y\": " \o NumberText(row.y) \o ", \"z\": 0.0}, \"objects\": ["
             \o ObjectsText(row.objects) \o "]}"

\* search_terms[:5]
FirstFive(search_terms) ==
    SubSeq(search_terms, 1, IF Len(search_terms) < 5 THEN Len(search_terms) ELSE 5)

\* the LIKE parameters search_products builds: one per word of the
\* normalized term, then one per each of the first five expanded terms,
\* words shorter than two characters skipped
LikeParams(term) ==
    The({SelectSeq(split(normalized_term)
                       \o FirstFive(expand_search_terms(normalized_term)),
                   LAMBDA w : Len(w) >= 2) :
            normalized_term \in {normalize_search_term(term)}})

\* metadata_json LIKE ? OR metadata_json LIKE ? ...
WhereClause(row_text, params) ==
    \E i \in 1..Len(params) : Like("%" \o params[i] \o "%", row_text, 1, 1)

\* SELECT frame_id, metadata_json FROM ObjMeta WHERE ... LIKE ? OR ...
Prefilter(rows, term) ==
    The({SelectSeq(rows, LAMBDA row : WhereClause(metadata_json(row), params)) :
            params \in {LikeParams(term)}})

\* a row with matching objects and a global pose gives a result
ResultsOf(row, matching_objects) ==
    IF matching_objects # <<>> /\ row.format = "dict"
    THEN <<[frame_id |-> row.frame_id, x |-> row.x, y |-> row.y,
            objects |-> matching_objects]>>
    ELSE <<>>

RECURSIVE ProcessFrames(_, _)
\* the loop over the selected rows
ProcessFrames(rows, term) ==
    IF rows = <<>> THEN <<>>
    ELSE The({ResultsOf(Head(rows), matching_objects) :
                 matching_objects \in
                     {IF Head(rows).format = "empty" THEN <<>>
                      ELSE fuzzy_search_objects(term, Head(rows).objects)}})
             \o ProcessFrames(Tail(rows), term)

search_products(term, rows, use_sql_prefilter) ==
    IF use_sql_prefilter
    THEN ProcessFrames(Prefilter(rows, term), term)
    ELSE ProcessFrames(rows, term)

(***************************************************************************)
(* The stores and queries explored.  FixtureRows are ObjMeta rows in the   *)
(* shapes the database holds; a store is any MaxFrames or fewer of them,   *)
(* in rowid order.                                                         *)
(***************************************************************************)
Obj(c, n) == [class_name |-> c, notes |-> n]
Row(id, fmt, px, py, objs) ==
    [frame_id |-> id, format |-> fmt, x |-> px, y |-> py, objects |-> objs]
FixtureRows ==
    <<Row(1, "dict", 1, 2, <<Obj("milk", "whole milk 1L"), Obj("milk", "2% milk 1L")>>),
      Row(2, "dict", 3, 0, <<Obj("milk", "fresh organic")>>),
      Row(3, "dict", 0, 4, <<Obj("Milk", "Organic milk 2L")>>),
      Row(4, "dict", 5, 5, <<Obj("soda", "cola 355ml can"), Obj("chips", "salted")>>),
      Row(5, "dict", 2, 2, <<Obj("chocolate_milk", "organic 2% carton")>>),
      Row(6, "list", 0, 0, <<Obj("milk", "2% milk 1L")>>),
      Row(7, "dict", 7, 1, <<Obj("table", "table by the door"), Obj("pop", "fizzy")>>)>>
Queries ==
    {"2% milk", "whole milk", "organic milk", "milk", "milks", "soda", "cola",
     "table", "lait", "2% organic milk", "' milk", "chocolate milk"}

RECURSIVE RowsOf(_)
\* the fixture rows whose positions are in ids, in rowid order
RowsOf(ids) ==
    IF ids = {} THEN <<>>
    ELSE LET m == CHOOSE i \in ids : \A j \in ids : j <= i
         IN  Append(RowsOf(ids \ {m}), FixtureRows[m])
Stores ==
    {RowsOf(ids) : ids \in {s \in SUBSET (1..Len(FixtureRows)) :
                                s # {} /\ Cardinality(s) <= MaxFrames}}

\* Frames that put one class label in each tier of the scoring: equal to
\* the word, holding it as a whole word, holding it inside a longer word,
\* similar to it, and naming it only in the notes.
TierRows ==
    <<Row(11, "dict", 1, 1, <<Obj("milks", "assorted"), Obj("chocolate_milk", "carton"),
                              Obj("milk", "fresh"), Obj("milky", "bar")>>),
      Row(12, "dict", 2, 1, <<Obj("table", "wooden"), Obj("table_lamp", "table lamp"),
                              Obj("desk", "table top"), Obj("tables", "table set")>>),
      Row(13, "dict", 3, 1, <<Obj("cheeze", "cheddar"), Obj("juices", "orange"),
                              Obj("juice", "apple")>>),
      Row(14, "dict", 4, 1, <<Obj("soda", "can"), Obj("Light", "ceiling light"),
                              Obj("chips", "salted")>>),
      Row(15, "dict", 5, 1, <<Obj("milks", "organic"), Obj("milk", "organic")>>)>>
TierQueries ==
    {"milk", "MILK", "table", "cheese", "juice", "soda", "light", "chips",
     "organic milk"}
TierStores ==
    {[i \in 1..Cardinality(ids) |->
         TierRows[CHOOSE m \in ids : Cardinality({j \in ids : j < m}) = i - 1]] :
        ids \in {s \in SUBSET (1..Len(TierRows)) :
                    s # {} /\ Cardinality(s) <= MaxFrames}}

\* Frames that name a late member of a term's expansion, and one that names
\* the term itself.
ExpansionRows ==
    <<Row(21, "dict", 6, 6, <<Obj("fizzy_drink", "lemon")>>),
      Row(22, "dict", 6, 7, <<Obj("soda", "cola 355ml can")>>),
      Row(23, "dict", 6, 8, <<Obj("yogurt", "naturel")>>),
      Row(24, "dict", 6, 9, <<Obj("spring_water", "still")>>)>>
ExpansionQueries ==
    {"pop", "cola", "soda", "organic", "natural", "water", "milk", "juice"}
ExpansionStores ==
    {[i \in 1..Cardinality(ids) |->
         ExpansionRows[CHOOSE m \in ids : Cardinality({j \in ids : j < m}) = i - 1]] :
        ids \in {s \in SUBSET (1..Len(ExpansionRows)) :
                    s # {} /\ Cardinality(s) <= MaxFrames}}

\* the frame ids of fetched rows, in the order fetched
FrameIds(rows) == [i \in 1..Len(rows) |-> rows[i].frame_id]

NotRun == [ran |-> FALSE, results |-> <<>>, entries |-> <<>>]
NoFuzzy ==
    [ran |-> FALSE, frame_id |-> 0, objs |-> <<>>, returned |-> <<>>,
     scores |-> <<>>, primary |-> <<>>]

\* no search in progress
SearchIdle ==
    /\ store = <<>>
    /\ query = ""
    /\ legacy = NotRun
    /\ prefiltered = NotRun
    /\ fuzzy = NoFuzzy

\* a store is on disk and the user has typed a query
SearchInit ==
    /\ store \in Stores
    /\ query \in Queries
    /\ legacy = NotRun
    /\ prefiltered = NotRun
    /\ fuzzy = NoFuzzy

\* a store of tiered frames is on disk and the user has typed a query
TierInit ==
    /\ store \in TierStores
    /\ query \in TierQueries
    /\ legacy = NotRun
    /\ prefiltered = NotRun
    /\ fuzzy = NoFuzzy

\* a store of such frames is on disk and the user has typed a query
ExpansionInit ==
    /\ store \in ExpansionStores
    /\ query \in ExpansionQueries
    /\ legacy = NotRun
    /\ prefiltered = NotRun
    /\ fuzzy = NoFuzzy

\* search_products(query, db_path, use_sql_prefilter)
SearchProducts(use_sql_prefilter) ==
    /\ store # <<>>
    /\ IF use_sql_prefilter
       THEN /\ ~prefiltered.ran
            /\ prefiltered' = [ran |-> TRUE,
                               results |-> search_products(query, store, TRUE),
                               entries |-> FrameIds(Prefilter(store, query))]
            /\ UNCHANGED legacy
       ELSE /\ ~legacy.ran
            /\ legacy' = [ran |-> TRUE,
                          results |-> search_products(query, store, FALSE),
                          entries |-> FrameIds(store)]
            /\ UNCHANGED prefiltered
    /\ UNCHANGED <<store, query, fuzzy>>
    /\ UNCHANGED <<coordVars, normVars, navVars,
                 flowVars, parseVars, dbVars>>

\* fuzzy_search_objects(query, metadata_json, use_sql_prefilter=False) on the
\* metadata of row i of the store
FuzzySearchObjects(i) ==
    /\ i \in 1..Len(store)
    /\ store[i].format # "empty"
    /\ fuzzy.frame_id # store[i].frame_id
    /\ \E ms \in {matches_with_priority(query, store[i].objects)} :
         fuzzy' = [ran |-> TRUE, frame_id |-> store[i].frame_id,
                   objs |-> MatchedObjects(ms),
                   returned |-> Descriptions(ms),
                   scores |-> Scores(ms),
                   primary |-> PrimarySteps(NormalizeAll(split(query)),
                                            store[i].objects)]
    /\ UNCHANGED <<store, query, legacy, prefiltered>>
    /\ UNCHANGED <<coordVars, normVars, navVars,
                 flowVars, parseVars, dbVars>>

(***************************************************************************)
(* normalize_search_term, applied again and again to its own result.       *)
(***************************************************************************)
TableTerms(d) ==
    UNION {{d[i][1]} \cup {d[i][2][k] : k \in 1..Len(d[i][2])} : i \in 1..Len(d)}
PairTerms(d) == UNION {{d[i][1], d[i][2]} : i \in 1..Len(d)}
\* every term of the four tables, and some text that is in none
NormInputs ==
    TableTerms(PRODUCT_SYNONYMS) \cup TableTerms(DIETARY_FILTERS)
        \cup PairTerms(FRENCH_TRANSLATIONS) \cup PairTerms(plural_mappings)
        \cup {"", " 2% Milk ", "Soft Drink", "Rubik's Cube", "POP", "gluten free"}

NormIdle ==
    /\ norm_term = ""
    /\ normal_forms = <<>>
NormInit ==
    /\ norm_term \in NormInputs
    /\ normal_forms = <<>>
\* normalize_search_term of the term, then of each result in turn
Normalize ==
    /\ Len(normal_forms) < MaxApplications
    /\ normal_forms' =
           Append(normal_forms,
                  normalize_search_term(IF normal_forms = <<>> THEN norm_term
                                        ELSE normal_forms[Len(normal_forms)]))
    /\ UNCHANGED norm_term
    /\ UNCHANGED <<coordVars, searchVars, navVars,
                 flowVars, parseVars, dbVars>>

(***************************************************************************)
(* Part 3.  Navigation guidance (navigation_guidance.py).                  *)
(*                                                                         *)
(* Lengths are integers: coordinates and rounded distances in centimetres; *)
(* the distance before rounding, a square root, is kept as its square.     *)
(* Angles are integers too: thousandths of a degree inside                 *)
(* calculate_direction, tenths of a degree once rounded to one decimal.    *)
(* A yaw is given in tenths of a degree.                                   *)
(***************************************************************************)
\* math.degrees(math.atan2(a, b)) in thousandths of a degree, for the
\* non-negative a and b that are differences of two coordinates of Coords
atan2_table ==
    <<<<0, 20, 0>>, <<0, 480, 0>>, <<0, 500, 0>>, <<0, 520, 0>>,
      <<0, 1000, 0>>, <<20, 0, 90000>>, <<20, 20, 45000>>,
      <<20, 480, 2386>>, <<20, 500, 2291>>, <<20, 520, 2203>>,
      <<20, 1000, 1146>>, <<480, 0, 90000>>, <<480, 20, 87614>>,
      <<480, 480, 45000>>, <<480, 500, 43831>>, <<480, 520, 42709>>,
      <<480, 1000, 25641>>, <<500, 0, 90000>>, <<500, 20, 87709>>,
      <<500, 480, 46169>>, <<500, 500, 45000>>, <<500, 520, 43877>>,
      <<500, 1000, 26565>>, <<520, 0, 90000>>, <<520, 20, 87797>>,
      <<520, 480, 47291>>, <<520, 500, 46123>>, <<520, 520, 45000>>,
      <<520, 1000, 27474>>, <<1000, 0, 90000>>, <<1000, 20, 88854>>,
      <<1000, 480, 64359>>, <<1000, 500, 63435>>, <<1000, 520, 62526>>,
      <<1000, 1000, 45000>>>>
Coords == {-500, 0, 20, 500}
Points == Coords \X Coords
Yaws == {-1800, -900, -150, 0, 150, 450, 900, 1800}

Abs(n) == IF n < 0 THEN -n ELSE n
FirstQuadrant(a, b) ==
    IF a = 0 THEN 0
    ELSE IF b = 0 THEN 90000
    ELSE IF a = b THEN 45000
    ELSE (CHOOSE e \in {atan2_table[i] : i \in 1..Len(atan2_table)} :
              e[1] = a /\ e[2] = b)[3]

\* math.atan2(y, x) in thousandths of a degree.  y is the negated dy, so a
\* zero y is the float -0.0 and atan2 gives -0.0 for x >= 0 and -pi for x < 0.
atan2(y, x) ==
    LET q == FirstQuadrant(Abs(y), Abs(x))
        upper == IF x >= 0 THEN q ELSE 180000 - q
    IN  IF y > 0 THEN upper
        ELSE IF y < 0 THEN -upper
        ELSE IF x >= 0 THEN 0 ELSE -180000

NormalizeBearingNever(b) == b
\* the two while loops that bring the relative bearing into [-pi, pi]
NormalizeBearing(b) ==
    IF b > 180000 THEN b - 360000
    ELSE IF b < -180000 THEN b + 360000
    ELSE b

\* round() of n / d for d > 0: to the nearest integer, a tie to the even one
RoundHalfEven(n, d) ==
    LET q == (2 * n + d) \div (2 * d)
    IN  IF (2 * n + d) % (2 * d) = 0 /\ q % 2 = 1 THEN q - 1 ELSE q

\* math.sqrt(dx**2 + dy**2), kept as its square dx**2 + dy**2: the distance
\* is below a length L exactly when the square is below L * L
calculate_distance(pos1, pos2) ==
    (pos2[1] - pos1[1]) * (pos2[1] - pos1[1])
        + (pos2[2] - pos1[2]) * (pos2[2] - pos1[2])

\* round(math.sqrt(num / den)): the nearest integer, a tie to the even one
RoundSqrt(num, den) ==
    LET up == CHOOSE c \in 0..(num + 1) :
                  /\ (c = 0 \/ (2 * c - 1) * (2 * c - 1) * den <= 4 * num)
                  /\ 4 * num < (2 * c + 1) * (2 * c + 1) * den
    IN  IF up > 0 /\ (2 * up - 1) * (2 * up - 1) * den = 4 * num /\ up % 2 = 1
        THEN up - 1 ELSE up

RECURSIVE IntText(_)
\* str() of a natural number
IntText(n) ==
    IF n < 10 THEN CharAt(DigitChars, n + 1)
    ELSE IntText(n \div 10) \o CharAt(DigitChars, (n % 10) + 1)
\* str() of the float h / 2 and of the float t / 10
HalvesText(h) == IntText(h \div 2) \o (IF h % 2 = 0 THEN ".0" ELSE ".5")
TenthsText(t) == IntText(t \div 10) \o "." \o IntText(t % 10)

\* str.capitalize() of a lower-case text
capitalize(s) ==
    IF s = "" THEN ""
    ELSE CharAt(UpperCase, CHOOSE i \in 1..26 : CharAt(LowerCase, i) = CharAt(s, 1))
             \o From(s, 2)

\* the 8-point compass of generate_direction_text, bearing in thousandths
CompassDirection(bearing_deg) ==
    IF -22500 <= bearing_deg /\ bearing_deg <= 22500 THEN "straight ahead"
    ELSE IF 22500 < bearing_deg /\ bearing_deg <= 67500 THEN "ahead and to your right"
    ELSE IF 67500 < bearing_deg /\ bearing_deg <= 112500 THEN "on your right"
    ELSE IF 112500 < bearing_deg /\ bearing_deg <= 157500 THEN "behind you on the right"
    ELSE IF bearing_deg > 157500 \/ bearing_deg < -157500 THEN "directly behind you"
    ELSE IF bearing_deg < -112500 THEN "behind you on the left"
    ELSE IF bearing_deg < -67500 THEN "on your left"
    ELSE "ahead and to your left"

\* generate_direction_text: bearing in thousandths of a degree, the distance
\* as its square in square centimetres
generate_direction_text(bearing_deg, distance) ==
    IF distance < 30 * 30 THEN "You are at the target location"
    ELSE IF distance < 100 * 100
    THEN "About 1 meter " \o CompassDirection(bearing_deg)
    ELSE IF distance < 300 * 300
    THEN capitalize(CompassDirection(bearing_deg)) \o ", about "
             \o HalvesText(RoundSqrt(4 * distance, 10000)) \o " meters"
    ELSE IF distance < 1000 * 1000
    THEN capitalize(CompassDirection(bearing_deg)) \o ", roughly "
             \o IntText(RoundSqrt(distance, 10000)) \o " meters"
    ELSE capitalize(CompassDirection(bearing_deg)) \o ", approximately "
             \o IntText(5 * RoundSqrt(distance, 250000)) \o " meters away"

\* generate_turn_instruction, called with the distance
generate_turn_instruction(bearing_deg, distance) ==
    IF distance < 30 * 30 THEN "You have arrived at your destination"
    ELSE IF Abs(bearing_deg) < 15000 THEN "Keep going straight"
    ELSE IF Abs(bearing_deg) < 45000
    THEN IF bearing_deg > 0 THEN "Turn slightly to your right"
                            ELSE "Turn slightly to your left"
    ELSE IF Abs(bearing_deg) < 90000
    THEN IF bearing_deg > 0 THEN "Make a right turn" ELSE "Make a left turn"
    ELSE IF Abs(bearing_deg) < 135000
    THEN IF bearing_deg > 0 THEN "Turn sharply to your right"
                            ELSE "Turn sharply to your left"
    ELSE "Turn around"

\* what calculate_direction returns for a relative bearing (thousandths of
\* a degree) and a distance (its square): the two texts are made from the
\* values before rounding
DirectionOf(relative_bearing, distance) ==
    [direction |-> generate_direction_text(relative_bearing, distance),
     distance |-> RoundSqrt(distance, 1),
     bearing |-> RoundHalfEven(relative_bearing, 100),
     turn_instruction |-> generate_turn_instruction(relative_bearing, distance)]

\* calculate_direction: the rounded distance (cm), the rounded relative
\* bearing (tenths of a degree) and the two compass texts
calculate_direction(user_pos, target_pos, user_yaw) ==
    LET dx == target_pos[1] - user_pos[1]
        dy == -(target_pos[2] - user_pos[2])
        corrected_yaw == -user_yaw
        target_bearing == atan2(dy, dx)
    IN  DirectionOf(NormalizeBearing(target_bearing - 100 * corrected_yaw),
                    calculate_distance(user_pos, target_pos))

\* round(distance, 1) in tenths of a metre for a distance in centimetres; a
\* distance that ends in 5 is no tie as a float, and goes where its binary
\* value lies
RoundTenths(c) ==
    IF c % 10 # 5 THEN (c + 5) \div 10
    ELSE IF c \in {55, 65, 75} THEN (c + 5) \div 10
    ELSE (c - 5) \div 10

\* format_distance of a distance in centimetres
format_distance(distance) ==
    IF distance < 50 THEN "less than half a meter"
    ELSE IF distance < 100
    THEN "about " \o TenthsText(RoundTenths(distance)) \o " meters"
    ELSE IF distance < 200
    THEN "about " \o HalvesText(RoundHalfEven(2 * distance, 100)) \o " meters"
    ELSE IF distance < 500
    THEN "approximately " \o IntText(RoundHalfEven(distance, 100)) \o " meters"
    ELSE IF distance < 1000
    THEN "around " \o IntText(RoundHalfEven(distance, 100)) \o " meters"
    ELSE "approximately " \o IntText(5 * RoundHalfEven(distance, 500)) \o " meters"

ClockPosition(clock_hour) ==
    LET wrapped == IF clock_hour > 6 THEN clock_hour - 12
                   ELSE IF clock_hour < -6 THEN clock_hour + 12
                   ELSE clock_hour
    IN  IF wrapped = 0 THEN 12
        ELSE IF wrapped > 0 THEN wrapped
        ELSE 12 + wrapped

\* the orientation wording of generate_clock_instruction
Orientation(clock_position) ==
    CASE clock_position = 12 -> "Face straight ahead at 12 o'clock"
      [] clock_position = 3 -> "Turn to face 3 o'clock, directly to your right"
      [] clock_position = 9 -> "Turn to face 9 o'clock, directly to your left"
      [] clock_position = 6 -> "Turn around to face 6 o'clock, behind you"
      [] clock_position = 1 -> "Turn slightly right to face 1 o'clock"
      [] clock_position = 2 -> "Turn right to face 2 o'clock"
      [] clock_position = 4 -> "Turn right to face 4 o'clock"
      [] clock_position = 5 -> "Turn around to your right, facing 5 o'clock"
      [] clock_position = 11 -> "Turn slightly left to face 11 o'clock"
      [] clock_position = 10 -> "Turn left to face 10 o'clock"
      [] clock_position = 8 -> "Turn left to face 8 o'clock"
      [] clock_position = 7 -> "Turn around to your left, facing 7 o'clock"
      [] OTHER -> "Turn to face " \o IntText(Abs(clock_position)) \o " o'clock"

\* generate_clock_instruction, the distance in centimetres
generate_clock_instruction(clock_position, distance) ==
    IF distance < 30 THEN "You have arrived at your destination"
    ELSE Orientation(clock_position) \o ". Then walk "
             \o format_distance(distance) \o "."

generate_clock_face_direction(user_pos, target_pos, user_yaw) ==
    LET direction_data == calculate_direction(user_pos, target_pos, user_yaw)
        bearing == direction_data.bearing
        distance == direction_data.distance
        clock_position == ClockPosition(RoundHalfEven(bearing, 300))
    IN  [clock_position |-> clock_position,
         bearing_degrees |-> bearing,
         distance_meters |-> distance,
         instruction |-> generate_clock_instruction(clock_position, distance)]

NoRequest == [user_pos |-> <<0, 0>>, target_pos |-> <<0, 0>>, user_yaw |-> 0,
              asked |-> FALSE]
NoGuidance == [clock_position |-> 0, bearing_degrees |-> 0,
               distance_meters |-> 0, instruction |-> ""]
NotMerged == [target_object |-> ""]
NavIdle ==
    /\ nav_request = NoRequest
    /\ nav_guidance = NoGuidance
    /\ nav_merged = NotMerged
\* a localized user and a target frame
NavInit ==
    /\ nav_request \in [user_pos : Points, target_pos : Points, user_yaw : Yaws,
                        asked : {TRUE}]
    /\ nav_guidance = NoGuidance
    /\ nav_merged = NotMerged
\* generate_clock_face_direction(user_pos, target_pos, user_yaw)
GenerateClockFaceDirection ==
    /\ nav_request.asked
    /\ nav_guidance = NoGuidance
    /\ nav_guidance' = generate_clock_face_direction(nav_request.user_pos,
                           nav_request.target_pos, nav_request.user_yaw)
    /\ UNCHANGED <<nav_request, nav_merged>>
    /\ UNCHANGED <<coordVars, searchVars, normVars,
                 flowVars, parseVars, dbVars>>

(***************************************************************************)
(* Part 5.  The orchestrator, workflow_service.py: execute_workflow runs   *)
(* the product search, then the localization, then the guidance, and       *)
(* returns one dictionary.  Store positions are in metres; the guidance    *)
(* works in centimetres, so a frame at x metres is at 100 * x.  A Python   *)
(* None is NoLocalization, NoNavigation, NoFrame or NoYaw, by its place.   *)
(***************************************************************************)
NoFrame == 0
NoYaw == 3600
NoLocalization == [position |-> <<0, 0>>, yaw |-> NoYaw, picture_id |-> NoFrame]
NoNavigation ==
    [clock_position |-> 0, clock_instruction |-> "", direction |-> "",
     turn_instruction |-> "", target_object |-> "",
     target_frame_id |-> NoFrame, distance |-> 0, bearing |-> 0,
     is_at_location |-> FALSE]

\* dx**2 + dy**2, whose square root select_nearest_frame sorts by
SquaredDistance(pos1, pos2) ==
    (pos2[1] - pos1[1]) * (pos2[1] - pos1[1])
        + (pos2[2] - pos1[2]) * (pos2[2] - pos1[2])

\* no ordering at all: the frame goes in front
InsertInFront(frame, sorted) == <<frame>> \o sorted
RECURSIVE InsertByDistance(_, _)
\* list.sort is stable: a frame goes behind every frame that is not farther
InsertByDistance(frame, sorted) ==
    IF sorted = <<>> THEN <<frame>>
    ELSE IF frame.distance_from_user < Head(sorted).distance_from_user
         THEN <<frame>> \o sorted
         ELSE <<Head(sorted)>> \o InsertByDistance(frame, Tail(sorted))

RECURSIVE WithDistances(_, _)
\* the loop of select_nearest_frame: each frame with its distance, kept as
\* the square of the distance in centimetres
WithDistances(user_position, search_results) ==
    IF search_results = <<>> THEN <<>>
    ELSE <<[frame_id |-> Head(search_results).frame_id,
            location |-> Head(search_results).location,
            objects |-> Head(search_results).objects,
            distance_from_user |->
                SquaredDistance(user_position, Head(search_results).location)]>>
             \o WithDistances(user_position, Tail(search_results))

RECURSIVE SortByDistance(_)
\* frames_with_distances.sort(key=distance_from_user)
SortByDistance(frames) ==
    IF frames = <<>> THEN <<>>
    ELSE InsertByDistance(frames[Len(frames)],
                          SortByDistance(SubSeq(frames, 1, Len(frames) - 1)))

\* select_nearest_frame's second result: all frames, nearest first
select_nearest_frame(user_position, search_results) ==
    SortByDistance(WithDistances(user_position, search_results))

\* the navigation_guidance dictionary add_navigation_guidance merges
MergeGuidance(clock_guidance, traditional_guidance, nearest_frame, object_name) ==
    [clock_position |-> clock_guidance.clock_position,
     clock_instruction |-> clock_guidance.instruction,
     direction |-> traditional_guidance.direction,
     turn_instruction |-> traditional_guidance.turn_instruction,
     target_object |-> object_name,
     target_frame_id |-> nearest_frame.frame_id,
     distance |-> clock_guidance.distance_meters,
     bearing |-> clock_guidance.bearing_degrees,
     is_at_location |-> clock_guidance.distance_meters < 30]

\* add_navigation_guidance for a non-empty result list
GuidanceTo(all_frames, user_position, user_yaw, object_name) ==
    [all_frames_with_distances |-> all_frames,
     navigation_guidance |->
         MergeGuidance(generate_clock_face_direction(user_position,
                           Head(all_frames).location, user_yaw),
                       calculate_direction(user_position,
                           Head(all_frames).location, user_yaw),
                       Head(all_frames), object_name)]

add_navigation_guidance(search_results, user_position, user_yaw, object_name) ==
    IF search_results = <<>>
    THEN [all_frames_with_distances |-> <<>>, navigation_guidance |-> NoNavigation]
    ELSE GuidanceTo(select_nearest_frame(user_position, search_results),
                    user_position, user_yaw, object_name)

\* Targets around a user who stands at the origin: on the spot, just inside
\* and just outside the 0.3 m of arrival, and farther away.
ArrivalTargets ==
    {<<0, 0>>, <<20, 20>>, <<21, 21>>, <<21, -21>>, <<-21, 21>>, <<29, 0>>,
     <<0, -29>>, <<30, 0>>, <<0, 30>>, <<40, 0>>, <<85, 0>>, <<0, 125>>,
     <<250, 0>>, <<-700, 0>>, <<1200, 1200>>}
ArrivalYaws == {-1800, -900, -200, 0, 100, 450, 900, 1800}
ArrivalInit ==
    /\ nav_request \in [user_pos : {<<0, 0>>}, target_pos : ArrivalTargets,
                        user_yaw : ArrivalYaws, asked : {TRUE}]
    /\ nav_guidance = NoGuidance
    /\ nav_merged = NotMerged
\* add_navigation_guidance for one search result, the frame at the target
AddNavigationGuidance ==
    /\ nav_request.asked
    /\ nav_merged = NotMerged
    /\ nav_merged' =
           add_navigation_guidance(
               <<[frame_id |-> 1, location |-> nav_request.target_pos,
                  objects |-> <<"milk: fresh">>]>>,
               nav_request.user_pos, nav_request.user_yaw,
               "milk").navigation_guidance
    /\ UNCHANGED <<nav_request, nav_guidance>>
    /\ UNCHANGED <<coordVars, searchVars, normVars,
                 flowVars, parseVars, dbVars>>

\* f"{user_yaw:.4f}" raises TypeError for a yaw that is not a number
GuidanceRaises(search_results, user_yaw) ==
    search_results # <<>> /\ user_yaw = NoYaw

\* search_products as its caller sees it: the connect and every query sit in
\* one try block whose handlers print the error and return []
SearchOrEmpty(term, rows, readable) ==
    IF readable THEN search_products(term, rows, TRUE) ELSE <<>>

\* whether search_products raises into execute_workflow: it catches
\* sqlite3.Error and Exception itself, so nothing ever does
SearchRaises(readable) == FALSE

RECURSIVE FormatSearchResults(_)
\* Step 3: frame id, location and objects of every match, in search order
FormatSearchResults(search_results) ==
    IF search_results = <<>> THEN <<>>
    ELSE <<[frame_id |-> Head(search_results).frame_id,
            location |-> <<100 * Head(search_results).x,
                           100 * Head(search_results).y>>,
            objects |-> Head(search_results).objects]>>
             \o FormatSearchResults(Tail(search_results))

\* Step 1's return: the coordinator is not initialized
NotInitialized ==
    [success |-> FALSE, search_results |-> <<>>,
     localization_results |-> NoLocalization, total_matches |-> 0,
     workflow_status |-> "rtabmap_service_not_initialized",
     timing_ms |-> "None",
     error_message |-> "RTAB-Map service is not initialized"]

\* the return of the handler around search_products
SearchFailed ==
    [success |-> FALSE, search_results |-> <<>>,
     localization_results |-> NoLocalization, total_matches |-> 0,
     workflow_status |-> "search_failed", timing_ms |-> "None",
     error_message |-> "Product search failed"]

\* Step 4.  The image is the uploaded one, the container's test image, or
\* none (get_test_image_path raises FileNotFoundError); outside a container
\* the /localize endpoint is asked instead.  `localizer` is the dictionary
\* process_image or the endpoint hands back.
LocalizeAlwaysCompleted(image, localizer) ==
    IF image # "no_test_image" /\ localizer.localization_successful
    THEN [formatted_localization |->
              [position |-> <<localizer.x, localizer.y>>,
               yaw |-> localizer.yaw, picture_id |-> localizer.pic_id],
          workflow_status |-> "completed", success |-> TRUE]
    ELSE [formatted_localization |-> NoLocalization,
          workflow_status |-> "completed", success |-> FALSE]
Localize(image, localizer) ==
    IF image = "no_test_image"
    THEN [formatted_localization |-> NoLocalization,
          workflow_status |-> "localization_error", success |-> FALSE]
    ELSE IF localizer.localization_successful
    THEN [formatted_localization |->
              [position |-> <<localizer.x, localizer.y>>,
               yaw |-> localizer.yaw, picture_id |-> localizer.pic_id],
          workflow_status |-> "completed", success |-> TRUE]
    ELSE [formatted_localization |-> NoLocalization,
          workflow_status |-> "localization_failed", success |-> FALSE]

NoDistance == -1

\* Step 7: the dictionary of a call that got past the search
FinalResult(loc, search_results, nav, multiple_frames_found, include_timing) ==
    [success |-> loc.success,
     search_results |-> search_results,
     localization_results |-> loc.formatted_localization,
     navigation_guidance |-> nav,
     nearest_frame_id |-> nav.target_frame_id,
     total_distance_to_target |->
         IF nav = NoNavigation THEN NoDistance ELSE nav.distance,
     multiple_frames_found |-> multiple_frames_found,
     total_matches |-> Len(search_results),
     workflow_status |-> loc.workflow_status,
     timing_ms |-> IF include_timing THEN "durations" ELSE "None",
     error_message |->
         IF loc.success THEN "None"
         ELSE "Workflow failed at " \o loc.workflow_status \o " stage"]

\* Step 5 when add_navigation_guidance returned: its guidance is reported and
\* the search results are replaced by the frames with their distances
Guided(navigation_data, loc, multiple_frames_found, include_timing) ==
    FinalResult(loc, navigation_data.all_frames_with_distances,
                navigation_data.navigation_guidance, multiple_frames_found,
                include_timing)

\* Step 5's condition: success and formatted_localization and
\* formatted_search_results
GuidanceGateOpen(loc, formatted_search_results) == TRUE
GuidanceGate(loc, formatted_search_results) ==
    /\ loc.success
    /\ loc.formatted_localization # NoLocalization
    /\ formatted_search_results # <<>>

\* Steps 5 to 7
Finish(object_name, formatted_search_results, loc, include_timing) ==
    IF GuidanceGate(loc, formatted_search_results)
    THEN [stages |-> <<"localization", "guidance">>,
          returned |->
              IF GuidanceRaises(formatted_search_results,
                                loc.formatted_localization.yaw)
              THEN FinalResult(loc, formatted_search_results, NoNavigation,
                               Len(formatted_search_results) > 1, include_timing)
              ELSE Guided(add_navigation_guidance(formatted_search_results,
                              loc.formatted_localization.position,
                              loc.formatted_localization.yaw, object_name),
                          loc, Len(formatted_search_results) > 1, include_timing)]
    ELSE [stages |-> <<"localization">>,
          returned |->
              FinalResult(loc, formatted_search_results, NoNavigation,
                          Len(formatted_search_results) > 1, include_timing)]

(***************************************************************************)
(* The calls explored: a store of MaxFrames or fewer of WorkflowRows, a    *)
(* query, and what the localizer answers.                                  *)
(***************************************************************************)
WorkflowRows ==
    <<Row(1, "dict", 5, 0, <<Obj("milk", "whole milk 1L")>>),
      Row(2, "dict", 0, 5, <<Obj("milk", "2% milk 1L")>>),
      Row(3, "dict", 0, 0, <<Obj("soda", "cola 355ml can")>>),
      Row(4, "dict", 5, 5, <<Obj("milk", "fresh organic"), Obj("chips", "salted")>>)>>
WorkflowStores ==
    {SelectSeq(WorkflowRows, LAMBDA row : row.frame_id \in ids) :
        ids \in {s \in SUBSET (1..Len(WorkflowRows)) :
                    s # {} /\ Cardinality(s) <= MaxFrames}}
WorkflowQueries == {"milk", "cola", "table"}
Images == {"uploaded", "test_image", "no_test_image", "api"}
UserPositions == {<<0, 0>>, <<500, 500>>, <<20, 0>>, <<-500, 0>>}
UserYaws == {0, 900}
NotLocalized ==
    [localization_successful |-> FALSE, x |-> 0, y |-> 0, yaw |-> 0, pic_id |-> NoFrame]
\* a success carries a pose; only the endpoint's JSON can carry a null yaw
Localizers(image) ==
    {NotLocalized} \cup
    {[localization_successful |-> TRUE, x |-> p[1], y |-> p[2], yaw |-> w,
      pic_id |-> 1] :
        p \in IF image = "no_test_image" THEN {} ELSE UserPositions,
        w \in UserYaws \cup (IF image = "api" THEN {NoYaw} ELSE {})}
WorkflowRequests ==
    [asked : {TRUE}, is_initialized : BOOLEAN, object_name : WorkflowQueries,
     rows : WorkflowStores, readable : BOOLEAN, image : Images,
     include_timing : BOOLEAN]

NoWorkflow ==
    [asked |-> FALSE, is_initialized |-> FALSE, object_name |-> "",
     rows |-> <<>>, readable |-> FALSE, image |-> "uploaded",
     include_timing |-> FALSE]
NoResult == [workflow_status |-> "none"]

\* no workflow call in progress
WorkflowIdle ==
    /\ wf_request = NoWorkflow
    /\ wf_result = NoResult
    /\ wf_found = <<>>
    /\ wf_localizer = NotLocalized
    /\ wf_stages = <<>>

\* a client has called execute_workflow
WorkflowInit ==
    /\ wf_request \in WorkflowRequests
    /\ wf_result = NoResult
    /\ wf_found = <<>>
    /\ wf_localizer = NotLocalized
    /\ wf_stages = <<>>

\* execute_workflow, Steps 1 to 3: up to the point where it awaits the
\* localization, or to an early return
ExecuteWorkflowSearch ==
    /\ wf_request.asked
    /\ wf_result = NoResult
    /\ wf_stages = <<>>
    /\ IF ~wf_request.is_initialized
       THEN /\ wf_result' = NotInitialized
            /\ wf_stages' = <<"validation">>
            /\ UNCHANGED wf_found
       ELSE IF SearchRaises(wf_request.readable)
       THEN /\ wf_result' = SearchFailed
            /\ wf_stages' = <<"search">>
            /\ UNCHANGED wf_found
       ELSE /\ wf_found' = FormatSearchResults(SearchOrEmpty(
                               wf_request.object_name, wf_request.rows,
                               wf_request.readable))
            /\ wf_stages' = <<"search">>
            /\ UNCHANGED wf_result
    /\ UNCHANGED <<wf_request, wf_localizer>>
    /\ UNCHANGED <<coordVars, searchVars, normVars, navVars, parseVars, dbVars>>

\* execute_workflow, Steps 4 to 7: the localization answers `localizer` (or
\* the image cannot be had); guidance, then the return
ExecuteWorkflowLocalize ==
    /\ wf_result = NoResult
    /\ wf_stages = <<"search">>
    /\ \E localizer \in Localizers(wf_request.image) :
         /\ wf_localizer' = localizer
         /\ \E done \in {Finish(wf_request.object_name, wf_found,
                                 Localize(wf_request.image, localizer),
                                 wf_request.include_timing)} :
              /\ wf_result' = done.returned
              /\ wf_stages' = wf_stages \o done.stages
    /\ UNCHANGED <<wf_request, wf_found>>
    /\ UNCHANGED <<coordVars, searchVars, normVars, navVars, parseVars, dbVars>>

(***************************************************************************)
(* Part 6.  The output parser, rtabmap_service.py:                         *)
(* parse_localization_output.  The engine's text is a string; the escape   *)
(* character that opens an ANSI sequence is written ^.  A score is kept    *)
(* exactly, as numerator and denominator.                                  *)
(***************************************************************************)
ESC == "^"
Letters == LowerCase \o UpperCase
NumeralChars == DigitChars \o "."

RECURSIVE RunOf(_, _, _)
\* the length of the longest run of characters of `chars` in s from position i
RunOf(s, i, chars) ==
    IF i > Len(s) \/ ~CharIn(CharAt(s, i), chars) THEN 0
    ELSE 1 + RunOf(s, i + 1, chars)

\* the text at position i of s is `word`
At(s, i, word) ==
    i + Len(word) - 1 <= Len(s) /\ SubSeq(s, i, i + Len(word) - 1) = word

\* \x1B\[[0-9;]*[A-Za-z] at position i: the length of the match, 0 if none
AnsiLen(s, i, n) ==
    IF i + 2 + n <= Len(s) /\ CharIn(CharAt(s, i + 2 + n), Letters)
    THEN n + 3 ELSE 0
AnsiAt(s, i) ==
    IF At(s, i, ESC \o "[") THEN AnsiLen(s, i, RunOf(s, i + 2, DigitChars \o ";"))
    ELSE 0

\* the least position of a set of positions, 0 for the empty set
FirstOf(positions) ==
    IF positions = {} THEN 0
    ELSE CHOOSE p \in positions : \A q \in positions : p <= q

RECURSIVE AnsiStrip(_, _)
RECURSIVE AnsiSkip(_, _, _)
\* ansi_escape.sub('', output), from position i on
AnsiStrip(s, i) ==
    AnsiSkip(s, i, FirstOf({p \in i..Len(s) : AnsiAt(s, p) > 0}))
AnsiSkip(s, i, next) ==
    IF next = 0 THEN From(s, i)
    ELSE SubSeq(s, i, next - 1) \o AnsiStrip(s, next + AnsiAt(s, next))

\* word\((chars+)\) at position i: the position after the closing
\* parenthesis, 0 if there is no match; n is the length of the run
ArgEnd(s, open, n) ==
    IF n >= 1 /\ open + n <= Len(s) /\ CharAt(s, open + n) = ")"
    THEN open + n + 1 ELSE 0
TokenEnd(s, i, word, chars) ==
    IF At(s, i, word \o "(")
    THEN ArgEnd(s, i + Len(word) + 1, RunOf(s, i + Len(word) + 1, chars))
    ELSE 0

\* the first position from i on where word\((chars+)\) matches, 0 if none
FirstToken(s, i, word, chars) ==
    FirstOf({p \in i..Len(s) : TokenEnd(s, p, word, chars) # 0})

\* the earlier of two positions, 0 standing for none
Earliest(p, q) ==
    IF p = 0 THEN q ELSE IF q = 0 THEN p ELSE IF p < q THEN p ELSE q

\* (?:loop|high)\((\d+)\): where the token at position lp ends
LoopEnd(s, lp) ==
    IF TokenEnd(s, lp, "loop", DigitChars) # 0
    THEN TokenEnd(s, lp, "loop", DigitChars)
    ELSE TokenEnd(s, lp, "high", DigitChars)

RECURSIVE IterationMatches(_, _)
RECURSIVE AfterIteration(_, _)
RECURSIVE AfterLoop(_, _, _)
RECURSIVE AfterHyp(_, _, _, _, _)
\* re.findall(r"iteration\(\d+\).*?(?:loop|high)\((\d+)\).*?hyp\(([\d.]+)\)",
\* s, re.DOTALL) from position i on: the captured (id, score) texts.  Each
\* lazy .*? stops at the first token that lets the rest match, which is the
\* first such token, since a later one leaves less text to match in.
IterationMatches(s, i) ==
    The({IF it = 0 THEN <<>>
         ELSE AfterIteration(s, TokenEnd(s, it, "iteration", DigitChars)) :
            it \in {FirstToken(s, i, "iteration", DigitChars)}})
AfterIteration(s, e1) ==
    The({IF lp = 0 THEN <<>> ELSE AfterLoop(s, lp, LoopEnd(s, lp)) :
            lp \in {Earliest(FirstToken(s, e1, "loop", DigitChars),
                             FirstToken(s, e1, "high", DigitChars))}})
AfterLoop(s, lp, e2) ==
    The({IF hp = 0 THEN <<>>
         ELSE AfterHyp(s, lp, e2, hp, TokenEnd(s, hp, "hyp", NumeralChars)) :
            hp \in {FirstToken(s, e2, "hyp", NumeralChars)}})
AfterHyp(s, lp, e2, hp, e3) ==
    <<<<SubSeq(s, lp + 5, e2 - 2), SubSeq(s, hp + 4, e3 - 2)>>>>
        \o IterationMatches(s, e3)

\* hypothesis[=\s]+([\d.]+) at position i: the captured text, "" if no match
HypothesisText(s, from, n) ==
    IF n >= 1 THEN SubSeq(s, from + n, from + n + RunOf(s, from + n, NumeralChars) - 1)
    ELSE ""
HypothesisAt(s, i) ==
    IF At(s, i, "hypothesis")
    THEN HypothesisText(s, i + 10, RunOf(s, i + 10, "= "))
    ELSE ""

\* the text of the group that matched at position p, 0 standing for none
HypGroup(s, p) ==
    IF p = 0 THEN ""
    ELSE IF TokenEnd(s, p, "hyp", NumeralChars) # 0
    THEN SubSeq(s, p + 4, TokenEnd(s, p, "hyp", NumeralChars) - 2)
    ELSE HypothesisAt(s, p)
\* the first match of (?:hyp\(([\d.]+)\)|hypothesis[=\s]+([\d.]+)) from
\* position i on: the text of the group that matched, "" if none
FirstHyp(s, i) ==
    HypGroup(s, FirstOf({p \in i..Len(s) :
                            \/ TokenEnd(s, p, "hyp", NumeralChars) # 0
                            \/ HypothesisAt(s, p) # ""}))

\* the first match of loop\((\d+)\): the text of its group, "" if none
FirstLoop(s, lp) ==
    IF lp = 0 THEN ""
    ELSE SubSeq(s, lp + 5, TokenEnd(s, lp, "loop", DigitChars) - 2)

DigitValue(c) == (CHOOSE i \in 1..Len(DigitChars) : CharAt(DigitChars, i) = c) - 1
RECURSIVE int(_)
\* int() of a run of digits
int(text) ==
    IF text = "" THEN 0
    ELSE 10 * int(SubSeq(text, 1, Len(text) - 1))
             + DigitValue(CharAt(text, Len(text)))
RECURSIVE Dots(_)
Dots(text) ==
    IF text = "" THEN 0
    ELSE (IF CharAt(text, 1) = "." THEN 1 ELSE 0) + Dots(From(text, 2))
RECURSIVE Decimals(_)
\* the number of digits behind the point
Decimals(text) ==
    IF text = "" \/ Dots(text) = 0 THEN 0
    ELSE IF CharAt(text, Len(text)) = "." THEN 0
    ELSE 1 + Decimals(SubSeq(text, 1, Len(text) - 1))
RECURSIVE PowerOfTen(_)
PowerOfTen(n) == IF n = 0 THEN 1 ELSE 10 * PowerOfTen(n - 1)
\* float() of a run of digits and points raises ValueError unless there is
\* a digit and at most one point
IsFloat(text) == Dots(text) <= 1 /\ Len(text) > Dots(text)
float(text) ==
    [num |-> int(replace(text, ".", "")), den |-> PowerOfTen(Decimals(text))]
\* v >= w for two such numbers
AtLeast(v, w) == v.num * w.den >= w.num * v.den

\* the 0.005 of `hypothesis_value >= 0.005`
Threshold == [num |-> 5, den |-> 1000]
has_valid_match(hypothesis_value) == AtLeast(hypothesis_value, Threshold)

NoPic == -1
NoScore == [num |-> 0, den |-> 1]
\* the exception float() raises out of the parser
ValueError ==
    [raised |-> TRUE, localization_successful |-> FALSE, pic_id |-> NoPic,
     hypothesis_value |-> NoScore, all_matches |-> <<>>]
\* the two dictionaries the parser returns
ParseResult(pic_id, hypothesis_value, all_matches) ==
    IF has_valid_match(hypothesis_value)
    THEN [raised |-> FALSE, localization_successful |-> TRUE,
          pic_id |-> pic_id, hypothesis_value |-> hypothesis_value,
          all_matches |-> all_matches]
    ELSE [raised |-> FALSE, localization_successful |-> FALSE,
          pic_id |-> NoPic, hypothesis_value |-> NoScore,
          all_matches |-> all_matches]

RECURSIVE AllMatches(_)
\* the loop over iteration_matches: (int(id), float(score)) of each
AllMatches(iteration_matches) ==
    IF iteration_matches = <<>> THEN <<>>
    ELSE <<<<int(Head(iteration_matches)[1]), float(Head(iteration_matches)[2])>>>>
             \o AllMatches(Tail(iteration_matches))

\* iteration_matches[0]: the match the result is taken from
LastMatch(iteration_matches) == iteration_matches[Len(iteration_matches)]
FirstMatch(iteration_matches) == iteration_matches[1]

\* the branch taken when the primary pattern matched
ParsePrimary(iteration_matches, candidate) ==
    IF \E i \in 1..Len(iteration_matches) : ~IsFloat(iteration_matches[i][2])
    THEN ValueError
    ELSE ParseResult(int(candidate[1]), float(candidate[2]),
                     AllMatches(iteration_matches))

\* the fallback: the first loop(...) and the first hyp(...) or hypothesis=...
ParseFallback(loop_text, hyp_text) ==
    IF loop_text = "" \/ hyp_text = ""
    THEN [raised |-> FALSE, localization_successful |-> FALSE,
          pic_id |-> NoPic, hypothesis_value |-> NoScore, all_matches |-> <<>>]
    ELSE IF ~IsFloat(hyp_text) THEN ValueError
    ELSE ParseResult(int(loop_text), float(hyp_text),
                     <<<<int(loop_text), float(hyp_text)>>>>)

ParseCleaned(cleaned_output, iteration_matches) ==
    IF iteration_matches # <<>>
    THEN ParsePrimary(iteration_matches, FirstMatch(iteration_matches))
    ELSE ParseFallback(FirstLoop(cleaned_output,
                           FirstToken(cleaned_output, 1, "loop", DigitChars)),
                       FirstHyp(cleaned_output, 1))

ParseStripped(cleaned_output) ==
    ParseCleaned(cleaned_output, IterationMatches(cleaned_output, 1))

parse_localization_output(output) == ParseStripped(AnsiStrip(output, 1))

(***************************************************************************)
(* The engine outputs explored: MaxReports or fewer of these pieces of     *)
(* rtabmap-console output, one after the other.                            *)
(***************************************************************************)
Pieces ==
    <<"iteration(1) loop(42) hyp(0.003)",
      "iteration(2) high(7) hyp(0.03) time=0.1s ",
      "iteration(3) loop(95) hyp(0.005) ",
      "iteration(4) ",
      "loop(8) ",
      "hyp(0.2) ",
      "hypothesis=0.004 ",
      "^[1;32mloop(9)^[0m ">>
RECURSIVE Joined(_)
Joined(pieces) ==
    IF pieces = <<>> THEN "" ELSE Pieces[Head(pieces)] \o Joined(Tail(pieces))
EngineOutputs ==
    {Joined(pieces) :
        pieces \in UNION {[1..n -> 1..Len(Pieces)] : n \in 0..MaxReports}}

NotParsed ==
    [raised |-> FALSE, localization_successful |-> FALSE, pic_id |-> NoPic,
     hypothesis_value |-> NoScore, all_matches |-> <<>>]
\* no engine output to parse
ParseIdle ==
    /\ engine_output = ""
    /\ parsed = NotParsed
    /\ parse_ran = FALSE
\* the engine has written its output
ParseInit ==
    /\ engine_output \in EngineOutputs
    /\ parsed = NotParsed
    /\ parse_ran = FALSE
\* parse_localization_output(output)
ParseLocalizationOutput ==
    /\ parse_ran = FALSE
    /\ parsed' = parse_localization_output(engine_output)
    /\ parse_ran' = TRUE
    /\ UNCHANGED engine_output
    /\ UNCHANGED <<coordVars, searchVars, normVars, navVars, flowVars, dbVars>>

(***************************************************************************)
(* Part 7.  The store connections.  search_products,                       *)
(* sql_prefilter_metadata and get_stored_node_pose each call               *)
(* sqlite3.connect for themselves; process_image reaches the store through *)
(* get_stored_node_pose.  A fault is where sqlite3 raises: in connect, in  *)
(* the first execute, or nowhere.  A connection a function returns without *)
(* closing stays open until the interpreter finalizes the object, which    *)
(* the language leaves to the collector.                                   *)
(***************************************************************************)
Faults == {"none", "connect", "execute"}

\* what a store operation did with its connection and how it ended
Ended(op, path, opened, closed) ==
    [op |-> op, path |-> path, opened |-> opened, closed |-> closed,
     fault |-> "none", accepted |-> FALSE, pic_id |-> NoPic, lookups |-> 0,
     localization_successful |-> FALSE, x |-> 0, y |-> 0]

\* search_products: whether a query is executed at all (with the prefilter,
\* only if a LIKE condition could be built)
SearchExecutes(term, use_sql_prefilter) ==
    ~use_sql_prefilter \/ LikeParams(term) # <<>>

\* search_products, lines 725-830, as to its connection: conn.close() is on
\* the path to `return results` only, not in the two handlers
SearchProductsEnds(term, use_sql_prefilter, fault) ==
    IF fault = "connect"
    THEN Ended("search_products", "store error", FALSE, FALSE)
    ELSE IF fault = "execute" /\ SearchExecutes(term, use_sql_prefilter)
    THEN Ended("search_products", "store error", TRUE, FALSE)
    ELSE Ended("search_products", "returned", TRUE, TRUE)

\* search_terms[:8]
FirstEight(search_terms) ==
    SubSeq(search_terms, 1, IF Len(search_terms) < 8 THEN Len(search_terms) ELSE 8)
\* the LIKE parameters of sql_prefilter_metadata (none of the queries
\* explored is a brand name, so BRAND_MAPPING adds none)
PrefilterParams(term) ==
    The({SelectSeq(split(normalized_term)
                       \o FirstEight(expand_search_terms(normalized_term)),
                   LAMBDA w : Len(w) >= 2) :
            normalized_term \in {normalize_search_term(term)}})
\* SELECT metadata_json FROM ObjMeta WHERE ... ORDER BY frame_id LIMIT 50
PrefilterRows(rows, params) ==
    SelectSeq(rows, LAMBDA row : WhereClause(metadata_json(row), params))

\* sql_prefilter_metadata, lines 495-558: with rows it returns their JSON
\* from inside the if, before the conn.close() that follows it
SqlPrefilterEnds(rows, params, fault) ==
    IF fault = "connect"
    THEN Ended("sql_prefilter_metadata", "store error", FALSE, FALSE)
    ELSE IF params = <<>>
    THEN Ended("sql_prefilter_metadata", "no conditions", TRUE, TRUE)
    ELSE IF fault = "execute"
    THEN Ended("sql_prefilter_metadata", "store error", TRUE, FALSE)
    ELSE IF PrefilterRows(rows, params) # <<>>
    THEN Ended("sql_prefilter_metadata", "rows found", TRUE, FALSE)
    ELSE Ended("sql_prefilter_metadata", "no rows", TRUE, TRUE)

\* every row, whatever its frame and metadata
AnyRows(rows, frame_id) == rows
\* get_frame_global_coordinates: the row of the frame, if its metadata is a
\* dictionary with a global_pose
PoseRows(rows, frame_id) ==
    SelectSeq(rows, LAMBDA row : row.frame_id = frame_id /\ row.format = "dict")

\* get_stored_node_pose, lines 330-408: every path that connected closes
get_stored_node_pose(rows, path_set, fault, node_id) ==
    IF ~path_set
    THEN Ended("get_stored_node_pose", "no db_path", FALSE, FALSE)
    ELSE IF fault = "connect"
    THEN Ended("get_stored_node_pose", "store error", FALSE, FALSE)
    ELSE IF fault = "execute"
    THEN Ended("get_stored_node_pose", "store error", TRUE, TRUE)
    ELSE IF PoseRows(rows, node_id) = <<>>
    THEN Ended("get_stored_node_pose", "no global pose", TRUE, TRUE)
    ELSE [Ended("get_stored_node_pose", "found", TRUE, TRUE) EXCEPT
              !.localization_successful = TRUE,
              !.x = PoseRows(rows, node_id)[1].x,
              !.y = PoseRows(rows, node_id)[1].y]

\* process_image, lines 596-645: the parser's candidate is resolved in the
\* store; every other case raises RuntimeError, which the handler at line
\* 647 turns into an error dictionary
Resolved(stored_pose, pic_id_matched) ==
    [stored_pose EXCEPT !.op = "process_image", !.accepted = TRUE,
                        !.pic_id = pic_id_matched, !.lookups = 1]
ResolveCandidate(final_pose_data, rows, path_set, fault) ==
    IF final_pose_data.raised
    THEN Ended("process_image", "RuntimeError: no results", FALSE, FALSE)
    ELSE IF final_pose_data.pic_id # NoPic
                /\ final_pose_data.localization_successful
    THEN Resolved(get_stored_node_pose(rows, path_set, fault,
                                       final_pose_data.pic_id),
                  final_pose_data.pic_id)
    ELSE Ended("process_image", "RuntimeError: no valid match", FALSE, FALSE)

(***************************************************************************)
(* The store operations explored: one store, one query, MaxOperations or   *)
(* fewer operations on them.                                               *)
(***************************************************************************)
DbStores == {RowsOf({1, 6}), RowsOf({2}), RowsOf({4, 7})}
DbQueries == {"milk", "table", "a"}
NodeIds == {1, 6, 9}
ResolveOutputs ==
    {"iteration(1) loop(1) hyp(0.03)", "iteration(1) high(6) hyp(0.2)",
     "iteration(1) loop(9) hyp(0.5)", "iteration(1) loop(1) hyp(0.003)",
     "rtabmap-console: nothing to report"}
NoOperation == Ended("none", "none", FALSE, FALSE)

\* no connection is open and no operation has run
DbIdle ==
    /\ connections = {}
    /\ db_last = NoOperation
    /\ db_ops = 0

\* a store and a query for the operations to come
DbInit ==
    /\ store \in DbStores
    /\ query \in DbQueries
    /\ legacy = NotRun
    /\ prefiltered = NotRun
    /\ fuzzy = NoFuzzy

\* the operation ends: its connection, numbered by the operation, is open
\* afterwards if it was opened and not closed
Complete(ended, fault) ==
    /\ db_ops < MaxOperations
    /\ db_ops' = db_ops + 1
    /\ db_last' = [ended EXCEPT !.fault = fault]
    /\ connections' =
           IF ended.opened /\ ~ended.closed
           THEN connections \cup {db_ops + 1} ELSE connections
    /\ UNCHANGED <<coordVars, searchVars, normVars, navVars, flowVars, parseVars>>

\* search_products(query, db_path, use_sql_prefilter), as to its connection
SearchProductsCall ==
    \E use_sql_prefilter \in BOOLEAN, fault \in Faults :
        Complete(SearchProductsEnds(query, use_sql_prefilter, fault), fault)

\* sql_prefilter_metadata(query, db_path)
SqlPrefilterMetadataCall ==
    \E fault \in Faults :
        Complete(SqlPrefilterEnds(store, PrefilterParams(query), fault), fault)

\* get_stored_node_pose(node_id)
GetStoredNodePoseCall ==
    \E node_id \in NodeIds, path_set \in BOOLEAN, fault \in Faults :
        Complete(get_stored_node_pose(store, path_set, fault, node_id), fault)

\* process_image from the engine's output on: parse, resolve, return;
\* db_path is set when the call starts, and unset by then if shutdown() ran
\* while the engine did
ProcessImageResolve ==
    \E output \in ResolveOutputs, path_set \in BOOLEAN, fault \in Faults :
        Complete(ResolveCandidate(parse_localization_output(output), store,
                                  path_set, fault), fault)

\* the interpreter finalizes a connection object nothing refers to any more
Finalize ==
    /\ \E c \in connections : connections' = connections \ {c}
    /\ UNCHANGED <<db_last, db_ops>>
    /\ UNCHANGED <<coordVars, searchVars, normVars, navVars, flowVars, parseVars>>

(***************************************************************************)
(* Specifications.                                                         *)
(***************************************************************************)
vars == <<coordVars, searchVars, normVars, navVars, flowVars, parseVars, dbVars>>

\* The coordinator under any interleaving of its callers.
Init ==
    CoordInit /\ SearchIdle /\ NormIdle /\ NavIdle /\ WorkflowIdle /\ ParseIdle
        /\ DbIdle
Next == CoordNext
Spec == Init /\ [][Next]_vars

\* The event loop runs every ready coroutine: a woken waiter resumes, a
\* launched subprocess is handed back, and wait_for ends by the engine's exit
\* or by its 60 s timer.
CoordFairness ==
    \A c \in Calls :
        /\ WF_vars(Resume(c))
        /\ WF_vars(SpawnReturn(c))
        /\ WF_vars(CommunicateDone(c) \/ Timeout(c))
FairNext ==
    \/ CallProcessImage /\ arrived' <= MaxFairCalls
    \/ CallInitialize /\ arrived' <= MaxFairCalls
    \/ Shutdown
    \/ \E c \in Calls : Resume(c)
    \/ \E c \in Calls : SpawnReturn(c)
    \/ \E c \in Calls : EngineExit(c)
    \/ \E c \in Calls : CommunicateDone(c)
    \/ \E c \in Calls : Timeout(c)
FairSpec == Init /\ [][FairNext]_vars /\ CoordFairness

\* One query against one store, with and without the SQL prefilter.
SearchNext == \E use_sql_prefilter \in BOOLEAN : SearchProducts(use_sql_prefilter)
SearchStart ==
    CoordInit /\ SearchInit /\ NormIdle /\ NavIdle /\ WorkflowIdle /\ ParseIdle
        /\ DbIdle
SearchSpec == SearchStart /\ [][SearchNext]_vars

\* One query against a store whose frames name late expansion terms.
ExpansionNext == \E use_sql_prefilter \in BOOLEAN : SearchProducts(use_sql_prefilter)
ExpansionStart ==
    CoordInit /\ ExpansionInit /\ NormIdle /\ NavIdle /\ WorkflowIdle /\ ParseIdle
        /\ DbIdle
ExpansionSpec == ExpansionStart /\ [][ExpansionNext]_vars

\* One query scored against the frames of one store.
FuzzyNext == \E i \in 1..MaxFrames : FuzzySearchObjects(i)
FuzzyStart ==
    CoordInit /\ SearchInit /\ NormIdle /\ NavIdle /\ WorkflowIdle /\ ParseIdle
        /\ DbIdle
FuzzySpec == FuzzyStart /\ [][FuzzyNext]_vars

\* One query scored against the frames of a store of tiered labels.
TierNext == \E i \in 1..MaxFrames : FuzzySearchObjects(i)
TierStart ==
    CoordInit /\ TierInit /\ NormIdle /\ NavIdle /\ WorkflowIdle /\ ParseIdle
        /\ DbIdle
TierSpec == TierStart /\ [][TierNext]_vars

\* Normalization of one term, repeated.
NormNext == Normalize
NormStart ==
    CoordInit /\ SearchIdle /\ NormInit /\ NavIdle /\ WorkflowIdle /\ ParseIdle
        /\ DbIdle
NormSpec == NormStart /\ [][NormNext]_vars

\* One guidance request.
NavNext == GenerateClockFaceDirection
NavStart ==
    CoordInit /\ SearchIdle /\ NormIdle /\ NavInit /\ WorkflowIdle /\ ParseIdle
        /\ DbIdle
NavSpec == NavStart /\ [][NavNext]_vars

\* One request for guidance to a target near the user or far from them.
ArrivalNext == AddNavigationGuidance \/ GenerateClockFaceDirection
ArrivalStart ==
    CoordInit /\ SearchIdle /\ NormIdle /\ ArrivalInit /\ WorkflowIdle /\ ParseIdle
        /\ DbIdle
ArrivalSpec == ArrivalStart /\ [][ArrivalNext]_vars

\* One execute_workflow call.
WorkflowNext == ExecuteWorkflowSearch \/ ExecuteWorkflowLocalize
WorkflowStart ==
    CoordInit /\ SearchIdle /\ NormIdle /\ NavIdle /\ WorkflowInit /\ ParseIdle
        /\ DbIdle
WorkflowSpec == WorkflowStart /\ [][WorkflowNext]_vars

\* One engine output parsed.
ParseNext == ParseLocalizationOutput
ParseStart ==
    CoordInit /\ SearchIdle /\ NormIdle /\ NavIdle /\ WorkflowIdle /\ ParseInit
        /\ DbIdle
ParseSpec == ParseStart /\ [][ParseNext]_vars

\* Store operations one after the other, and the collector.
StoreNext ==
    \/ SearchProductsCall
    \/ SqlPrefilterMetadataCall
    \/ GetStoredNodePoseCall
    \/ ProcessImageResolve
    \/ Finalize
StoreStart ==
    CoordInit /\ DbInit /\ NormIdle /\ NavIdle /\ WorkflowIdle /\ ParseIdle
        /\ DbIdle
StoreSpec == StoreStart /\ [][StoreNext]_vars
(***************************************************************************)
(* Claims about the coordinator.                                           *)
(***************************************************************************)
\* C1: at most one call is between lock acquisition and lock release; every
\* call that took the lock before the latest one has returned (released)
\* before the latest one created its workspace and launched its engine.
C1_AtMostOneInFlight ==
    /\ Cardinality(Holding) <= 1
    /\ Holding # {} => locked
    /\ \A i \in 1..(Len(grants) - 1) : call[grants[i]].pc = "returned"
\* A call holds the lock while another one is queued behind it.
C1_Witness == Holding # {} /\ waiters # <<>>

C3_EngineKilledOnTimeout ==
    \A c \in Calls :
        (~locked /\ call[c].pc = "returned" /\ call[c].result = "TimeoutError")
            => c \notin RunningIds

\* C4: every call that has asked for the lock, whether it waits or holds it,
\* eventually returns, and a held lock is eventually released, whatever the
\* outcome of the call.
C4_AlwaysBackToIdle ==
    /\ \A c \in Calls :
          (call[c].pc \in {"waiting", "spawn", "communicate"})
              ~> (call[c].pc = "returned")
    /\ locked ~> ~locked
\* A call that queued behind a call that timed out has been served.
C4_Witness ==
    \E i \in 1..(Len(grants) - 1) :
        /\ call[grants[i]].result = "TimeoutError"
        /\ call[grants[i + 1]].waited
        /\ call[grants[i + 1]].pc = "returned"

C21_EngineUsesInitializedPath == \A e \in engines : e.input # NoPath

\* C29: an initialize(db) call that returns False (the database file does
\* not exist) leaves is_initialized and db_path as they were before it ran.
C29_FailedInitializeKeepsState ==
    [][\A c \in Calls :
          (/\ call[c].pc # "returned"
           /\ call'[c].pc = "returned"
           /\ call'[c].kind = "initialize"
           /\ call'[c].result = "False")
              => (is_initialized' = is_initialized /\ db_path' = db_path)]_vars

(***************************************************************************)
(* Claims about product search.                                            *)
(***************************************************************************)
\* C6: Scenario A.  Searching "2% milk" over the frame that annotates milk
\* "whole milk 1L" and milk "2% milk 1L" returns exactly the one object with
\* notes "2% milk 1L".
C6_ScenarioA ==
    (fuzzy.ran /\ query = "2% milk" /\ fuzzy.frame_id = 1)
        => fuzzy.returned = <<"milk: 2% milk 1L">>

\* C7: all-or-nothing modifier rule.  For a query of two or more words, every
\* object fuzzy_search_objects returns matched the last word as its primary
\* (equal to the class label, a word of it, or similarity >= 0.8 with it) and
\* every earlier word as a modifier (a word of the notes, a substring of the
\* class label, or similarity >= 0.8 with some note word).
C7_AllOrNothing ==
    LET words == NormalizeAll(split(query))
        row   == CHOOSE r \in {store[i] : i \in 1..Len(store)} :
                     r.frame_id = fuzzy.frame_id
    IN  (fuzzy.ran /\ Len(words) >= 2) =>
            \A k \in 1..Len(fuzzy.objs) :
                LET obj == row.objects[fuzzy.objs[k]]
                    cn  == lower(obj.class_name)
                    nw  == findall_words(lower(obj.notes))
                    p   == words[Len(words)]
                IN  /\ \/ p = cn
                       \/ InSeq(p, findall_words(replace(cn, "_", " ")))
                       \/ RatioAtLeast(p, cn, 8, 10)
                    /\ \A m \in 1..(Len(words) - 1) :
                           \/ InSeq(words[m], nw)
                           \/ Contains(words[m], cn)
                           \/ \E w \in 1..Len(nw) :
                                  RatioAtLeast(words[m], nw[w], 8, 10)
\* "whole milk" over the Scenario A frame: the whole-milk object is returned
\* and the 2% object, whose class matches the primary word, is left out.
C7_Witness ==
    /\ fuzzy.ran
    /\ query = "whole milk"
    /\ fuzzy.frame_id = 1
    /\ fuzzy.objs = <<1>>

\* C8: normalization is idempotent: normalizing a normal form gives it back.
C8_Idempotent ==
    Len(normal_forms) >= 2 => normal_forms[2] = normal_forms[1]

\* C9: the prefilter produces no false negatives: every result of the
\* unfiltered scan is also a result of the prefiltered search.
C9_NoFalseNegatives ==
    (legacy.ran /\ prefiltered.ran) =>
        \A i \in 1..Len(legacy.results) :
            \E j \in 1..Len(prefiltered.results) :
                prefiltered.results[j] = legacy.results[i]

\* the first eight terms of the expansion of the normalized query
FirstEightExpanded ==
    LET terms == expand_search_terms(normalize_search_term(query))
    IN  SubSeq(terms, 1, IF Len(terms) < 8 THEN Len(terms) ELSE 8)
\* the annotation text of a row holds one of them
HoldsExpandedTerm(row) ==
    \E k \in 1..Len(FirstEightExpanded) :
        Contains(FirstEightExpanded[k], metadata_json(row))

\* C30: every frame whose annotation text contains one of the first 8
\* expanded terms of the normalized query survives the prefilter of
\* search_products.
C30_FirstEightTermsFilter ==
    prefiltered.ran =>
        \A i \in 1..Len(store) :
            HoldsExpandedTerm(store[i])
                => InSeq(store[i].frame_id, prefiltered.entries)

(***************************************************************************)
(* Claims about the scoring tiers of fuzzy_search_objects.                 *)
(***************************************************************************)
\* the words of the query as the scoring sees them, and the frame scored
SearchWords == NormalizeAll(split(query))
ScoredFrame ==
    CHOOSE r \in {store[i] : i \in 1..Len(store)} : r.frame_id = fuzzy.frame_id
ClassWords(class_name) == findall_words(replace(class_name, "_", " "))

\* C22: after STEP 1 every object holds the score of the highest tier that
\* applies to its class label: 1000 when the primary word equals it, else
\* 800 when the primary word is a whole word of it, else 600 when their
\* similarity is at least 0.8 (also when the primary word is a substring but
\* no whole word of the label), else no primary match.
C22_PrimaryTiers ==
    fuzzy.ran =>
        \A n \in 1..Len(fuzzy.primary) :
            LET p  == primary_object(SearchWords)
                cn == lower(ScoredFrame.objects[n].class_name)
            IN  fuzzy.primary[n] =
                    IF p = cn THEN [matched |-> TRUE, score |-> 1000]
                    ELSE IF InSeq(p, ClassWords(cn))
                    THEN [matched |-> TRUE, score |-> 800]
                    ELSE IF RatioAtLeast(p, cn, 8, 10)
                    THEN [matched |-> TRUE, score |-> 600]
                    ELSE [matched |-> FALSE, score |-> 0]

\* C23: for a single-word query the fallback adds to an object only when it
\* has no primary match, so an object with a primary match keeps its STEP 1
\* score, and every returned total is one of 1000, 800, 600, 500, 400, 200.
C23_FallbackOnlyWithoutPrimary ==
    (fuzzy.ran /\ Len(SearchWords) = 1) =>
        \A k \in 1..Len(fuzzy.objs) :
            /\ fuzzy.scores[k] \in {1000, 800, 600, 500, 400, 200}
            /\ fuzzy.primary[fuzzy.objs[k]].matched
                   => fuzzy.scores[k] = fuzzy.primary[fuzzy.objs[k]].score

\* C24: the descriptions fuzzy_search_objects returns for a frame are in
\* descending order of total score, and objects of equal score are in their
\* annotation order.
C24_RankedStable ==
    fuzzy.ran =>
        \A i, j \in 1..Len(fuzzy.objs) :
            i < j => \/ fuzzy.scores[i] > fuzzy.scores[j]
                     \/ /\ fuzzy.scores[i] = fuzzy.scores[j]
                        /\ fuzzy.objs[i] < fuzzy.objs[j]
\* "table" over the frame of tables: two objects tie at the top in annotation
\* order, and the fourth object is ranked above the third.
C24_Witness ==
    /\ fuzzy.ran
    /\ query = "table"
    /\ fuzzy.objs = <<1, 2, 4, 3>>
    /\ fuzzy.scores[1] = fuzzy.scores[2]
    /\ fuzzy.scores[3] > fuzzy.scores[4]

\* C25: for a single-word query q, every object of the searched frame whose
\* class label equals q ignoring case is returned.
C25_LabelEqualToQueryIsReturned ==
    (fuzzy.ran /\ Len(split(query)) = 1) =>
        \A n \in 1..Len(ScoredFrame.objects) :
            lower(ScoredFrame.objects[n].class_name) = lower(query)
                => \E k \in 1..Len(fuzzy.objs) : fuzzy.objs[k] = n

(***************************************************************************)
(* Claims about navigation guidance.                                       *)
(***************************************************************************)
\* C10: Scenario B.  For a user at (0, 0) with yaw 0 and a target at (0, -5),
\* the guidance has a relative bearing of about 0 degrees (within the 15
\* degrees of the 12 o'clock sector), clock position 12 and distance 5.0 m.
C10_ScenarioB ==
    (/\ nav_request.asked
     /\ nav_request.user_pos = <<0, 0>>
     /\ nav_request.target_pos = <<0, -500>>
     /\ nav_request.user_yaw = 0
     /\ nav_guidance # NoGuidance)
        => /\ Abs(nav_guidance.bearing_degrees) <= 150
           /\ nav_guidance.clock_position = 12
           /\ nav_guidance.distance_meters = 500

\* C11: the reported bearing is within [-180, 180] degrees and the clock
\* position is an integer in 1..12; a bearing of +180 or -180 is hour 6 and a
\* bearing that rounds to hour offset 0 is hour 12.
C11_BearingAndClockRange ==
    nav_guidance # NoGuidance =>
        /\ nav_guidance.bearing_degrees \in -1800..1800
        /\ nav_guidance.clock_position \in 1..12
        /\ Abs(nav_guidance.bearing_degrees) = 1800
               => nav_guidance.clock_position = 6
        /\ RoundHalfEven(nav_guidance.bearing_degrees, 300) = 0
               => nav_guidance.clock_position = 12
\* a target straight behind the user: bearing -180, hour 6
C11_Witness ==
    /\ nav_request.asked
    /\ nav_request.user_yaw = -900
    /\ nav_request.user_pos = <<0, 0>>
    /\ nav_request.target_pos = <<0, 500>>
    /\ nav_guidance.bearing_degrees = -1800
    /\ nav_guidance.clock_position = 6

\* the Euclidean distance between user and target is below 0.3 m
WithinArrival ==
    calculate_distance(nav_request.user_pos, nav_request.target_pos) < 30 * 30
ArrivalMessage == "You have arrived at your destination"

\* C26: is_at_location is true exactly when the Euclidean distance between
\* user and target is below 0.3 m, and exactly then the clock instruction is
\* the arrival message, with no orientation and no distance wording.
C26_ArrivedIffWithinArrival ==
    nav_merged # NotMerged =>
        /\ nav_merged.is_at_location <=> WithinArrival
        /\ nav_merged.clock_instruction = ArrivalMessage <=> WithinArrival

\* C27: the legacy direction and turn_instruction report arrival exactly
\* when is_at_location is true.
C27_LegacyAgreesOnArrival ==
    nav_merged # NotMerged =>
        /\ nav_merged.direction = "You are at the target location"
               <=> nav_merged.is_at_location
        /\ nav_merged.turn_instruction = ArrivalMessage
               <=> nav_merged.is_at_location

(***************************************************************************)
(* Claims about the orchestrator.                                          *)
(***************************************************************************)
\* the call has returned
Returned == wf_result # NoResult
\* the search stage ran without a store error and matched nothing
ZeroMatches ==
    /\ wf_request.readable
    /\ wf_stages # <<>>
    /\ wf_stages[1] = "search"
    /\ wf_found = <<>>

\* C12: whenever the search stage finds zero matches and raises no error,
\* execute_workflow returns success=true with total_matches=0 and an empty
\* search_results list, and navigation guidance is never attempted.
C12_EmptySearchIsSuccess ==
    (Returned /\ ZeroMatches) =>
        /\ wf_result.success
        /\ wf_result.total_matches = 0
        /\ wf_result.search_results = <<>>
        /\ \A i \in 1..Len(wf_stages) : wf_stages[i] # "guidance"

\* the localization stage ran and did not localize: the localizer answered
\* without a match, or getting the image raised
LocalizationFailed ==
    /\ Len(wf_stages) >= 2
    /\ wf_stages[2] = "localization"
    /\ (wf_request.image = "no_test_image"
            \/ ~wf_localizer.localization_successful)

\* C13: whenever search succeeded and localization fails for any reason,
\* execute_workflow returns success=false with workflow_status
\* 'localization_failed', localization_results null, and search_results
\* exactly the matches the search stage found, in their original order.
C13_LocalizationFailureNonFatal ==
    (Returned /\ LocalizationFailed) =>
        /\ ~wf_result.success
        /\ wf_result.workflow_status = "localization_failed"
        /\ wf_result.localization_results = NoLocalization
        /\ wf_result.search_results = wf_found

\* the search stage ran against a store that could not be opened or queried
StoreError == wf_request.is_initialized /\ ~wf_request.readable

\* C14: if opening or querying the store fails while the search stage runs,
\* execute_workflow returns workflow_status 'search_failed' with
\* success=false and does not go on to localization.
C14_StoreErrorIsSearchFailed ==
    (Returned /\ StoreError) =>
        /\ wf_result.workflow_status = "search_failed"
        /\ ~wf_result.success
        /\ \A i \in 1..Len(wf_stages) : wf_stages[i] # "localization"

\* the guidance stage ran
GuidanceAttempted ==
    \E i \in 1..Len(wf_stages) : wf_stages[i] = "guidance"

\* C15: navigation guidance is computed only after search returned at least
\* one match and localization succeeded; if the guidance computation itself
\* fails, the result still has success=true and workflow_status 'completed'
\* with navigation_guidance null and search and localization data intact.
C15_GuidanceGating ==
    /\ GuidanceAttempted =>
           /\ wf_found # <<>>
           /\ wf_request.image # "no_test_image"
           /\ wf_localizer.localization_successful
    /\ (Returned /\ GuidanceAttempted
            /\ GuidanceRaises(wf_found, wf_localizer.yaw)) =>
           /\ wf_result.success
           /\ wf_result.workflow_status = "completed"
           /\ wf_result.navigation_guidance = NoNavigation
           /\ wf_result.search_results = wf_found
           /\ wf_result.localization_results =
                  [position |-> <<wf_localizer.x, wf_localizer.y>>,
                   yaw |-> wf_localizer.yaw,
                   picture_id |-> wf_localizer.pic_id]
\* the endpoint localized the user with a null yaw, two frames matched, and
\* the guidance raised on it
C15_Witness ==
    /\ Returned
    /\ GuidanceAttempted
    /\ wf_request.image = "api"
    /\ wf_localizer.localization_successful
    /\ wf_localizer.yaw = NoYaw
    /\ Len(wf_found) = 2
    /\ wf_result.success
    /\ wf_result.navigation_guidance = NoNavigation

\* the keys every result is to carry
ReportedKeys ==
    {"success", "search_results", "localization_results",
     "navigation_guidance", "nearest_frame_id", "total_matches",
     "workflow_status", "timing_ms"}

\* C17: every result returned by execute_workflow, on every path, carries the
\* success flag, search_results, localization_results, navigation_guidance,
\* nearest_frame_id, total_matches, workflow_status and timing_ms.
C17_ResultAlwaysComplete ==
    Returned => ReportedKeys \subseteq DOMAIN wf_result

\* the call produced guidance
GuidanceProduced ==
    /\ Returned
    /\ wf_request.is_initialized
    /\ wf_result.navigation_guidance # NoNavigation
\* the squared distance of the i-th search match from the localized user
FromUser(i) ==
    SquaredDistance(<<wf_localizer.x, wf_localizer.y>>, wf_found[i].location)

\* C18: whenever navigation guidance is produced, its target_frame_id (and the
\* result's nearest_frame_id) is a search match whose distance from the
\* localized user position is less than or equal to that of every other
\* match, ties going to the match that comes first in search order.
C18_TargetIsNearest ==
    GuidanceProduced =>
        /\ wf_result.nearest_frame_id =
               wf_result.navigation_guidance.target_frame_id
        /\ \E i \in 1..Len(wf_found) :
               /\ wf_found[i].frame_id =
                      wf_result.navigation_guidance.target_frame_id
               /\ \A j \in 1..Len(wf_found) : FromUser(i) <= FromUser(j)
               /\ \A j \in 1..(i - 1) : FromUser(i) < FromUser(j)
\* two matches at the same distance from the user: the first one is the target
C18_Witness ==
    /\ GuidanceProduced
    /\ Len(wf_found) = 2
    /\ FromUser(1) = FromUser(2)
    /\ FromUser(1) > 0
    /\ wf_result.nearest_frame_id = wf_found[1].frame_id

\* C28: in every result execute_workflow returns, success is true exactly
\* when workflow_status is "completed", and exactly when localization_results
\* is not null.
C28_SuccessCompletedLocalized ==
    Returned =>
        /\ wf_result.success <=> wf_result.workflow_status = "completed"
        /\ wf_result.success <=> wf_result.localization_results # NoLocalization
\* a call that found frames and was localized has returned "completed"
C28_Witness ==
    /\ Returned
    /\ wf_result.success
    /\ wf_result.workflow_status = "completed"
    /\ wf_result.localization_results # NoLocalization
    /\ wf_result.total_matches > 0

(***************************************************************************)
(* Claims about the output parser.                                         *)
(***************************************************************************)
\* the first (ID, SCORE) pair collected has a score of 0.005 or more
FirstPairAbove ==
    /\ parsed.all_matches # <<>>
    /\ AtLeast(parsed.all_matches[1][2], [num |-> 5, den |-> 1000])

\* C16: parse_localization_output accepts a candidate iff at least one
\* (ID, SCORE) pair was collected and the first collected pair has SCORE >=
\* 0.005; the returned frame id and confidence are those of that first pair;
\* the output 'iteration(1) loop(42) hyp(0.003)' alone yields NoMatch.
C16_FirstPairDecides ==
    parse_ran =>
        /\ parsed.localization_successful <=> FirstPairAbove
        /\ parsed.localization_successful =>
               /\ parsed.pic_id = parsed.all_matches[1][1]
               /\ parsed.hypothesis_value = parsed.all_matches[1][2]
        /\ engine_output = "iteration(1) loop(42) hyp(0.003)" =>
               /\ ~parsed.localization_successful
               /\ parsed.all_matches = <<<<42, [num |-> 3, den |-> 1000]>>>>
\* a first pair below the threshold followed by a pair above it: NoMatch
C16_Witness ==
    /\ parse_ran
    /\ engine_output =
           "iteration(1) loop(42) hyp(0.003)iteration(2) high(7) hyp(0.03) time=0.1s "
    /\ Len(parsed.all_matches) = 2
    /\ parsed.all_matches[2] = <<7, [num |-> 3, den |-> 100]>>
    /\ ~parsed.localization_successful
    /\ ~parsed.raised

(***************************************************************************)
(* Claims about the store operations.                                      *)
(***************************************************************************)
\* C19: each connection opened by search_products, sql_prefilter_metadata or
\* get_stored_node_pose is closed before that operation returns, on every
\* exit path, so that no connection is open after any sequence of completed
\* operations.
C19_ConnectionsClosed ==
    /\ db_last.opened => db_last.closed
    /\ connections = {}

\* process_image has returned
ProcessImageReturned == db_last.op = "process_image"
\* the store of the service, read without a fault, holds a global_pose for
\* the candidate
HoldsGlobalPose ==
    /\ db_last.path # "no db_path"
    /\ db_last.fault = "none"
    /\ \E i \in 1..Len(store) :
           store[i].frame_id = db_last.pic_id /\ store[i].format = "dict"

=============================================================================
